---- MODULE Spec2Model ----
(***************************************************************************)
(* A model of the unsigned magnitude type UBig of ibig: its two            *)
(* representations, the bit shifts of shift.rs, the byte and primitive     *)
(* conversions of convert.rs, the formatting of fmt.rs and the ring        *)
(* elements of modular/convert.rs.                                         *)
(*                                                                         *)
(* The code is generic in the machine word (WORD_BITS, WORD_BYTES).  The   *)
(* model keeps that structure and scales the widths down: a byte has       *)
(* BYTE_BITS bits and a word WORD_BYTES bytes, so that every word value    *)
(* and every multi-word value within the bounds is enumerated.  Words      *)
(* wrap modulo 2^WORD_BITS exactly as the machine word does.               *)
(***************************************************************************)
EXTENDS Integers, Sequences, FiniteSets, TLC

VARIABLES u, call

vars == <<u, call>>

----------------------------------------------------------------------------
(* Word layer *)

BYTE_BITS == 2

WORD_BYTES == 2

WORD_BITS == WORD_BYTES * BYTE_BITS

USIZE_BITS == WORD_BITS

Pow2(n) == 2 ^ n

WORD_MAX == Pow2(WORD_BITS) - 1

USIZE_MAX == Pow2(USIZE_BITS) - 1

BYTE_MAX == Pow2(BYTE_BITS) - 1

Words == 0 .. WORD_MAX

Bytes == 0 .. BYTE_MAX

\* 0-based indexing, as in the source
At(s, i) == s[i + 1]

Set(s, i, v) == [s EXCEPT ![i + 1] = v]

Zeros(n) == [i \in 1 .. n |-> 0]

RECURSIVE BitLen(_)
BitLen(w) == IF w = 0 THEN 0 ELSE 1 + BitLen(w \div 2)

\* Word::leading_zeros
leading_zeros(w) == WORD_BITS - BitLen(w)

\* word << n on a Word: the bits shifted out are lost
WordShl(w, n) == (w * Pow2(n)) % Pow2(WORD_BITS)

\* word >> n on a Word
WordShr(w, n) == w \div Pow2(n)

RECURSIVE BitOr(_, _)
BitOr(a, b) ==
    IF a = 0 THEN b
    ELSE IF b = 0 THEN a
    ELSE (IF a % 2 = 1 \/ b % 2 = 1 THEN 1 ELSE 0) + 2 * BitOr(a \div 2, b \div 2)

----------------------------------------------------------------------------
(* Buffer and the two representations of UBig *)

SLACK == 2

Small(w) == [tag |-> "Small", word |-> w]

Large(b) == [tag |-> "Large", buffer |-> b]

from_word(w) == Small(w)

Allocate(n) == [words |-> <<>>, cap |-> n + SLACK]

Push(b, w) == [b EXCEPT !.words = Append(@, w)]

PushZeros(b, n) == [b EXCEPT !.words = @ \o Zeros(n)]

Extend(b, ws) == [b EXCEPT !.words = @ \o ws]

Truncate(b, n) == [b EXCEPT !.words = SubSeq(@, 1, n)]

will_reallocate(b, n) == n > b.cap

RECURSIVE StripZeros(_)
StripZeros(ws) ==
    IF Len(ws) > 0 /\ ws[Len(ws)] = 0 THEN StripZeros(SubSeq(ws, 1, Len(ws) - 1)) ELSE ws

pop_leading_zeros(b) == [b EXCEPT !.words = StripZeros(@)]

\* impl From<Buffer> for UBig
BufferInto(b) ==
    LET c == pop_leading_zeros(b) IN
    IF Len(c.words) = 0 THEN from_word(0)
    ELSE IF Len(c.words) = 1 THEN from_word(c.words[1])
    ELSE Large(c)

is_zero(x) == x.tag = "Small" /\ x.word = 0

\* the words of a value, least significant first
WordsOf(x) == IF x.tag = "Small" THEN <<x.word>> ELSE x.buffer.words

RECURSIVE SeqValue(_, _)
SeqValue(ws, base) ==
    IF Len(ws) = 0 THEN 0 ELSE ws[1] + base * SeqValue(Tail(ws), base)

\* the number a value stands for
Value(x) == SeqValue(WordsOf(x), Pow2(WORD_BITS))

\* PartialEq of UBig: same variant, same words
UEq(x, y) == x.tag = y.tag /\ WordsOf(x) = WordsOf(y)

Canonical(x) ==
    \/ x.tag = "Small" /\ x.word \in Words
    \/ /\ x.tag = "Large"
       /\ Len(x.buffer.words) >= 2
       /\ x.buffer.words[Len(x.buffer.words)] # 0
       /\ \A i \in 1 .. Len(x.buffer.words) : x.buffer.words[i] \in Words
       /\ Len(x.buffer.words) <= x.buffer.cap

----------------------------------------------------------------------------
(* Left shift, shift.rs *)

shl_small_words(word, shift_words) ==
    BufferInto(Push(PushZeros(Allocate(shift_words + 1), shift_words), word))

shl_small_words_bits(word, shift_words, shift_bits) ==
    BufferInto(Push(Push(PushZeros(Allocate(shift_words + 2), shift_words),
                         WordShl(word, shift_bits)),
                    WordShr(word, WORD_BITS - shift_bits)))

shl_small_usize(word, rhs) ==
    IF rhs <= leading_zeros(word) THEN from_word(WordShl(word, rhs))
    ELSE LET shift_words == rhs \div WORD_BITS
             shift_bits == rhs % WORD_BITS
         IN IF shift_bits = 0 THEN shl_small_words(word, shift_words)
            ELSE shl_small_words_bits(word, shift_words, shift_bits)

shl_large_ref_words(words, shift_words) ==
    BufferInto(Extend(PushZeros(Allocate(Len(words) + shift_words), shift_words), words))

\* for (i, word) in words.iter().enumerate(), from index i on
RECURSIVE ShlRefBitsLoop(_, _, _, _, _)
ShlRefBitsLoop(ws, words, i, shift_words, shift_bits) ==
    IF i >= Len(words) THEN ws
    ELSE LET word == At(words, i)
             w1 == Set(ws, i + shift_words,
                       BitOr(At(ws, i + shift_words), WordShl(word, shift_bits)))
             w2 == Set(w1, i + shift_words + 1, WordShr(word, WORD_BITS - shift_bits))
         IN ShlRefBitsLoop(w2, words, i + 1, shift_words, shift_bits)

shl_large_ref_words_bits(words, shift_words, shift_bits) ==
    LET new_len == Len(words) + shift_words + 1
        buffer == PushZeros(Allocate(new_len), new_len)
    IN BufferInto([buffer EXCEPT
                      !.words = ShlRefBitsLoop(@, words, 0, shift_words, shift_bits)])

\* for i in (shift_words..buffer.len()).rev(), from index i down
RECURSIVE ShlWordsLoop(_, _, _)
ShlWordsLoop(ws, i, shift_words) ==
    IF i < shift_words THEN ws
    ELSE ShlWordsLoop(Set(ws, i, At(ws, i - shift_words)), i - 1, shift_words)

\* for x in buffer[0..n].iter_mut() { *x = 0 }
ZeroLow(ws, n) == [i \in 1 .. Len(ws) |-> IF i <= n THEN 0 ELSE ws[i]]

\* shl_large_words moving the words up inside the buffer and leaving the low
\* words as they were
shl_large_words_unzeroed(buffer, shift_words) ==
    IF shift_words = 0 THEN BufferInto(buffer)
    ELSE IF will_reallocate(buffer, Len(buffer.words) + shift_words)
         THEN shl_large_ref_words(buffer.words, shift_words)
    ELSE LET b1 == PushZeros(buffer, shift_words)
         IN BufferInto([b1 EXCEPT !.words = ShlWordsLoop(b1.words, Len(b1.words) - 1,
                                                         shift_words)])

shl_large_words(buffer, shift_words) ==
    IF shift_words = 0 THEN BufferInto(buffer)
    ELSE IF will_reallocate(buffer, Len(buffer.words) + shift_words)
         THEN shl_large_ref_words(buffer.words, shift_words)
    ELSE LET b1 == PushZeros(buffer, shift_words)
             ws == ShlWordsLoop(b1.words, Len(b1.words) - 1, shift_words)
         IN BufferInto([b1 EXCEPT !.words = ZeroLow(ws, shift_words)])

\* for i in (0..old_len).rev(), from index i down
RECURSIVE ShlBitsLoop(_, _, _, _)
ShlBitsLoop(ws, i, shift_words, shift_bits) ==
    IF i < 0 THEN ws
    ELSE LET word == At(ws, i)
             w1 == Set(ws, i + shift_words + 1,
                       BitOr(At(ws, i + shift_words + 1),
                             WordShr(word, WORD_BITS - shift_bits)))
             w2 == Set(w1, i + shift_words, WordShl(word, shift_bits))
         IN ShlBitsLoop(w2, i - 1, shift_words, shift_bits)

\* shl_large_words_bits leaving the stale low words in place
shl_large_words_bits_stale(buffer, shift_words, shift_bits) ==
    LET old_len == Len(buffer.words)
        new_len == old_len + shift_words + 1
    IN IF will_reallocate(buffer, new_len)
       THEN shl_large_ref_words_bits(buffer.words, shift_words, shift_bits)
       ELSE LET b1 == PushZeros(buffer, shift_words + 1)
                ws == ShlBitsLoop(b1.words, old_len - 1, shift_words, shift_bits)
            IN BufferInto([b1 EXCEPT !.words = ws])

shl_large_words_bits(buffer, shift_words, shift_bits) ==
    LET old_len == Len(buffer.words)
        new_len == old_len + shift_words + 1
    IN IF will_reallocate(buffer, new_len)
       THEN shl_large_ref_words_bits(buffer.words, shift_words, shift_bits)
       ELSE LET b1 == PushZeros(buffer, shift_words + 1)
                ws == ShlBitsLoop(b1.words, old_len - 1, shift_words, shift_bits)
            IN BufferInto([b1 EXCEPT !.words = ZeroLow(ws, shift_words)])

shl_large_usize(buffer, rhs) ==
    LET shift_words == rhs \div WORD_BITS
        shift_bits == rhs % WORD_BITS
    IN IF shift_bits = 0 THEN shl_large_words(buffer, shift_words)
       ELSE shl_large_words_bits(buffer, shift_words, shift_bits)

shl_large_ref_usize(words, rhs) ==
    LET shift_words == rhs \div WORD_BITS
        shift_bits == rhs % WORD_BITS
    IN IF shift_bits = 0 THEN shl_large_ref_words(words, shift_words)
       ELSE shl_large_ref_words_bits(words, shift_words, shift_bits)

shl_usize(self, rhs) ==
    IF self.tag = "Small" THEN shl_small_usize(self.word, rhs)
    ELSE shl_large_usize(self.buffer, rhs)

shl_ref_usize(self, rhs) ==
    IF self.tag = "Small" THEN shl_small_usize(self.word, rhs)
    ELSE shl_large_ref_usize(self.buffer.words, rhs)

----------------------------------------------------------------------------
(* Byte conversions, convert.rs *)

BYTE_BASE == Pow2(BYTE_BITS)

Reverse(s) == [i \in 1 .. Len(s) |-> s[Len(s) + 1 - i]]

\* Word::from_le_bytes / T::from_le_bytes on a full array
IntFromLeBytes(bs) == SeqValue(bs, BYTE_BASE)

\* Word::from_be_bytes on a full array
IntFromBeBytes(bs) == SeqValue(Reverse(bs), BYTE_BASE)

\* x.to_le_bytes() for an integer type of n bytes
IntToLeBytes(x, n) == [i \in 1 .. n |-> (x \div Pow2(BYTE_BITS * (i - 1))) % BYTE_BASE]

\* x.to_be_bytes() for an integer type of n bytes
IntToBeBytes(x, n) == Reverse(IntToLeBytes(x, n))

\* at most WORD_BYTES bytes, zero-extended to a word
word_from_le_bytes_partial(bs) == IntFromLeBytes(bs \o Zeros(WORD_BYTES - Len(bs)))

word_from_be_bytes_partial(bs) == IntFromBeBytes(Zeros(WORD_BYTES - Len(bs)) \o bs)

\* for chunk in bytes.chunks_exact(WORD_BYTES), chunks i, i+1, ... counted from the front
RECURSIVE LeChunksLoop(_, _, _)
LeChunksLoop(buffer, bs, i) ==
    IF (i + 1) * WORD_BYTES > Len(bs) THEN buffer
    ELSE LeChunksLoop(Push(buffer,
                           IntFromLeBytes(SubSeq(bs, i * WORD_BYTES + 1, (i + 1) * WORD_BYTES))),
                      bs, i + 1)

from_le_bytes_large(bs) ==
    LET buffer == Allocate((Len(bs) - 1) \div WORD_BYTES + 1)
        full == LeChunksLoop(buffer, bs, 0)
        remainder == SubSeq(bs, (Len(bs) \div WORD_BYTES) * WORD_BYTES + 1, Len(bs))
    IN BufferInto(IF Len(remainder) > 0
                  THEN Push(full, word_from_le_bytes_partial(remainder))
                  ELSE full)

from_le_bytes(bs) ==
    IF Len(bs) <= WORD_BYTES THEN from_word(word_from_le_bytes_partial(bs))
    ELSE from_le_bytes_large(bs)

\* for chunk in bytes.rchunks_exact(WORD_BYTES), chunks i, i+1, ... counted from the back
RECURSIVE BeChunksLoop(_, _, _)
BeChunksLoop(buffer, bs, i) ==
    IF (i + 1) * WORD_BYTES > Len(bs) THEN buffer
    ELSE BeChunksLoop(Push(buffer,
                           IntFromBeBytes(SubSeq(bs, Len(bs) - (i + 1) * WORD_BYTES + 1,
                                                 Len(bs) - i * WORD_BYTES))),
                      bs, i + 1)

\* from_be_bytes_large chunking from the front, as chunks_exact does
from_be_bytes_large_front(bs) ==
    LET buffer == Allocate((Len(bs) - 1) \div WORD_BYTES + 1)
        full == LeChunksLoop(buffer, bs, 0)
        remainder == SubSeq(bs, (Len(bs) \div WORD_BYTES) * WORD_BYTES + 1, Len(bs))
    IN BufferInto(IF Len(remainder) > 0
                  THEN Push(full, word_from_be_bytes_partial(remainder))
                  ELSE full)

from_be_bytes_large(bs) ==
    LET buffer == Allocate((Len(bs) - 1) \div WORD_BYTES + 1)
        full == BeChunksLoop(buffer, bs, 0)
        remainder == SubSeq(bs, 1, Len(bs) % WORD_BYTES)
    IN BufferInto(IF Len(remainder) > 0
                  THEN Push(full, word_from_be_bytes_partial(remainder))
                  ELSE full)

from_be_bytes(bs) ==
    IF Len(bs) <= WORD_BYTES THEN from_word(word_from_be_bytes_partial(bs))
    ELSE from_be_bytes_large(bs)

\* bytes.extend_from_slice(&word.to_le_bytes()) for the words from index i on
RECURSIVE LeWordsBytes(_, _)
LeWordsBytes(ws, i) ==
    IF i > Len(ws) THEN <<>>
    ELSE IntToLeBytes(ws[i], WORD_BYTES) \o LeWordsBytes(ws, i + 1)

\* to_le_bytes rounding the number of skipped bytes up
to_le_bytes_round_up(self) ==
    IF self.tag = "Small"
    THEN LET bs == IntToLeBytes(self.word, WORD_BYTES)
             skip_bytes == (leading_zeros(self.word) + BYTE_BITS - 1) \div BYTE_BITS
         IN SubSeq(bs, 1, WORD_BYTES - skip_bytes)
    ELSE LET n == Len(self.buffer.words)
             last == self.buffer.words[n]
             skip_last_bytes == (leading_zeros(last) + BYTE_BITS - 1) \div BYTE_BITS
             last_bytes == IntToLeBytes(last, WORD_BYTES)
         IN LeWordsBytes(SubSeq(self.buffer.words, 1, n - 1), 1)
            \o SubSeq(last_bytes, 1, WORD_BYTES - skip_last_bytes)

to_le_bytes(self) ==
    IF self.tag = "Small"
    THEN LET bs == IntToLeBytes(self.word, WORD_BYTES)
             skip_bytes == leading_zeros(self.word) \div BYTE_BITS
         IN SubSeq(bs, 1, WORD_BYTES - skip_bytes)
    ELSE LET n == Len(self.buffer.words)
             last == self.buffer.words[n]
             skip_last_bytes == leading_zeros(last) \div BYTE_BITS
             last_bytes == IntToLeBytes(last, WORD_BYTES)
         IN LeWordsBytes(SubSeq(self.buffer.words, 1, n - 1), 1)
            \o SubSeq(last_bytes, 1, WORD_BYTES - skip_last_bytes)

\* for word in buffer[..n - 1].iter().rev(), from index i down
RECURSIVE BeWordsBytes(_, _)
BeWordsBytes(ws, i) ==
    IF i < 1 THEN <<>>
    ELSE IntToBeBytes(ws[i], WORD_BYTES) \o BeWordsBytes(ws, i - 1)

\* to_be_bytes writing the top word of a multi-word value in full
to_be_bytes_full(self) ==
    IF self.tag = "Small"
    THEN LET bs == IntToBeBytes(self.word, WORD_BYTES)
             skip_bytes == leading_zeros(self.word) \div BYTE_BITS
         IN SubSeq(bs, skip_bytes + 1, WORD_BYTES)
    ELSE LET n == Len(self.buffer.words)
         IN IntToBeBytes(self.buffer.words[n], WORD_BYTES)
            \o BeWordsBytes(self.buffer.words, n - 1)

to_be_bytes(self) ==
    IF self.tag = "Small"
    THEN LET bs == IntToBeBytes(self.word, WORD_BYTES)
             skip_bytes == leading_zeros(self.word) \div BYTE_BITS
         IN SubSeq(bs, skip_bytes + 1, WORD_BYTES)
    ELSE LET n == Len(self.buffer.words)
             last == self.buffer.words[n]
             skip_last_bytes == leading_zeros(last) \div BYTE_BITS
             last_bytes == IntToBeBytes(last, WORD_BYTES)
         IN SubSeq(last_bytes, skip_last_bytes + 1, WORD_BYTES)
            \o BeWordsBytes(self.buffer.words, n - 1)

----------------------------------------------------------------------------
(* Right shift, shift.rs *)

shr_small_usize(word, rhs) ==
    from_word(IF rhs < WORD_BITS THEN WordShr(word, rhs) ELSE 0)

shr_large_ref_words(words, shift_words) ==
    IF shift_words >= Len(words) THEN from_word(0)
    ELSE LET n == Len(words) - shift_words
         IN IF n = 1 THEN from_word(At(words, shift_words))
            ELSE BufferInto(Extend(Allocate(n), SubSeq(words, shift_words + 1, Len(words))))

\* for i in 0..n - 1 { buffer.push(..) }, from index i on
RECURSIVE ShrRefBitsLoop(_, _, _, _, _, _)
ShrRefBitsLoop(buffer, words, i, n, shift_words, shift_bits) ==
    IF i >= n - 1 THEN buffer
    ELSE ShrRefBitsLoop(
             Push(buffer,
                  BitOr(WordShr(At(words, i + shift_words), shift_bits),
                        WordShl(At(words, i + shift_words + 1), WORD_BITS - shift_bits))),
             words, i + 1, n, shift_words, shift_bits)

\* shr_large_ref_words_bits pushing the top word unshifted
shr_large_ref_words_bits_top(words, shift_words, shift_bits) ==
    IF shift_words >= Len(words) THEN from_word(0)
    ELSE LET n == Len(words) - shift_words
         IN IF n = 1 THEN from_word(WordShr(At(words, shift_words), shift_bits))
            ELSE IF n = 2 /\ WordShr(At(words, shift_words + 1), shift_bits) = 0
                 THEN from_word(BitOr(WordShr(At(words, shift_words), shift_bits),
                                      WordShl(At(words, shift_words + 1),
                                              WORD_BITS - shift_bits)))
            ELSE LET b1 == ShrRefBitsLoop(Allocate(n), words, 0, n, shift_words, shift_bits)
                 IN BufferInto(Push(b1, At(words, n - 1 + shift_words)))

shr_large_ref_words_bits(words, shift_words, shift_bits) ==
    IF shift_words >= Len(words) THEN from_word(0)
    ELSE LET n == Len(words) - shift_words
         IN IF n = 1 THEN from_word(WordShr(At(words, shift_words), shift_bits))
            ELSE IF n = 2 /\ WordShr(At(words, shift_words + 1), shift_bits) = 0
                 THEN from_word(BitOr(WordShr(At(words, shift_words), shift_bits),
                                      WordShl(At(words, shift_words + 1),
                                              WORD_BITS - shift_bits)))
            ELSE LET b1 == ShrRefBitsLoop(Allocate(n), words, 0, n, shift_words, shift_bits)
                 IN BufferInto(Push(b1, WordShr(At(words, n - 1 + shift_words), shift_bits)))

\* for i in 0..n { buffer[i] = buffer[i + shift_words] }, from index i on
RECURSIVE ShrWordsLoop(_, _, _, _)
ShrWordsLoop(ws, i, n, shift_words) ==
    IF i >= n THEN ws
    ELSE ShrWordsLoop(Set(ws, i, At(ws, i + shift_words)), i + 1, n, shift_words)

shr_large_words(buffer, shift_words) ==
    IF shift_words = 0 THEN BufferInto(buffer)
    ELSE IF shift_words >= Len(buffer.words) THEN from_word(0)
    ELSE LET n == Len(buffer.words) - shift_words
         IN IF n > 1 /\ will_reallocate(buffer, n)
            THEN shr_large_ref_words(buffer.words, shift_words)
            ELSE BufferInto(Truncate(
                     [buffer EXCEPT !.words = ShrWordsLoop(@, 0, n, shift_words)], n))

\* for i in 0..n - 1 { buffer[i] = .. }, from index i on
RECURSIVE ShrBitsLoop(_, _, _, _, _)
ShrBitsLoop(ws, i, n, shift_words, shift_bits) ==
    IF i >= n - 1 THEN ws
    ELSE ShrBitsLoop(
             Set(ws, i,
                 BitOr(WordShr(At(ws, i + shift_words), shift_bits),
                       WordShl(At(ws, i + shift_words + 1), WORD_BITS - shift_bits))),
             i + 1, n, shift_words, shift_bits)

\* shr_large_words_bits handing the truncated buffer over as it is
shr_large_words_bits_raw(buffer, shift_words, shift_bits) ==
    IF shift_words >= Len(buffer.words) THEN from_word(0)
    ELSE LET n == Len(buffer.words) - shift_words
         IN IF n > 2 /\ will_reallocate(buffer, n)
            THEN shr_large_ref_words_bits(buffer.words, shift_words, shift_bits)
            ELSE LET w1 == ShrBitsLoop(buffer.words, 0, n, shift_words, shift_bits)
                     w2 == Set(w1, n - 1, WordShr(At(w1, n - 1 + shift_words), shift_bits))
                 IN Large(Truncate([buffer EXCEPT !.words = w2], n))

shr_large_words_bits(buffer, shift_words, shift_bits) ==
    IF shift_words >= Len(buffer.words) THEN from_word(0)
    ELSE LET n == Len(buffer.words) - shift_words
         IN IF n > 2 /\ will_reallocate(buffer, n)
            THEN shr_large_ref_words_bits(buffer.words, shift_words, shift_bits)
            ELSE LET w1 == ShrBitsLoop(buffer.words, 0, n, shift_words, shift_bits)
                     w2 == Set(w1, n - 1, WordShr(At(w1, n - 1 + shift_words), shift_bits))
                 IN BufferInto(Truncate([buffer EXCEPT !.words = w2], n))

shr_large_usize(buffer, rhs) ==
    LET shift_words == rhs \div WORD_BITS
        shift_bits == rhs % WORD_BITS
    IN IF shift_bits = 0 THEN shr_large_words(buffer, shift_words)
       ELSE shr_large_words_bits(buffer, shift_words, shift_bits)

shr_large_ref_usize(words, rhs) ==
    LET shift_words == rhs \div WORD_BITS
        shift_bits == rhs % WORD_BITS
    IN IF shift_bits = 0 THEN shr_large_ref_words(words, shift_words)
       ELSE shr_large_ref_words_bits(words, shift_words, shift_bits)

shr_usize(self, rhs) ==
    IF self.tag = "Small" THEN shr_small_usize(self.word, rhs)
    ELSE shr_large_usize(self.buffer, rhs)

shr_ref_usize(self, rhs) ==
    IF self.tag = "Small" THEN shr_small_usize(self.word, rhs)
    ELSE shr_large_ref_usize(self.buffer.words, rhs)

----------------------------------------------------------------------------
(* Primitive integer types and outcomes *)

Ok(v) == [status |-> "ok", val |-> v]

Err == [status |-> "err"]

Panic(m) == [status |-> "panic", msg |-> m]

\* Buffer::panic_too_large
panic_too_large == Panic("too_large")

panic_shift_negative == Panic("Shift by negative amount")

\* a primitive integer type: its signedness and T::BYTE_SIZE
Unsigned(n) == [signed |-> FALSE, BYTE_SIZE |-> n]

Signed(n) == [signed |-> TRUE, BYTE_SIZE |-> n]

BIT_SIZE(T) == T.BYTE_SIZE * BYTE_BITS

TMax(T) == IF T.signed THEN Pow2(BIT_SIZE(T) - 1) - 1 ELSE Pow2(BIT_SIZE(T)) - 1

TMin(T) == IF T.signed THEN 0 - Pow2(BIT_SIZE(T) - 1) ELSE 0

\* T::Unsigned
UnsignedOf(T) == Unsigned(T.BYTE_SIZE)

Usize == Unsigned(USIZE_BITS \div BYTE_BITS)

WordType == Unsigned(WORD_BYTES)

\* T::try_from(x) between primitive integers
TryFromInt(T, x) == IF TMin(T) <= x /\ x <= TMax(T) THEN Ok(x) ELSE Err

----------------------------------------------------------------------------
(* Conversions between UBig and primitives, convert.rs *)

\* ubig_from_unsigned truncating to a word, as `x as Word` does
ubig_from_unsigned_cast(T, x) == from_word(x % Pow2(WORD_BITS))

ubig_from_unsigned(T, x) ==
    IF TryFromInt(WordType, x).status = "ok" THEN from_word(x)
    ELSE from_le_bytes(IntToLeBytes(x, T.BYTE_SIZE))

ubig_from_signed(T, x) ==
    IF TryFromInt(UnsignedOf(T), x).status = "ok"
    THEN Ok(ubig_from_unsigned(UnsignedOf(T), x))
    ELSE Err

\* impl From<bool> for UBig
ubig_from_bool(b) == ubig_from_unsigned(Unsigned(1), IF b THEN 1 ELSE 0)

\* bytes[pos..pos + WORD_BYTES].copy_from_slice(&w.to_le_bytes()), from word index idx on
RECURSIVE CopyWordsLoop(_, _, _)
CopyWordsLoop(bs, words, idx) ==
    IF idx >= Len(words) THEN bs
    ELSE LET pos == idx * WORD_BYTES
             wb == IntToLeBytes(At(words, idx), WORD_BYTES)
         IN CopyWordsLoop([i \in 1 .. Len(bs) |->
                              IF pos < i /\ i <= pos + WORD_BYTES THEN wb[i - pos] ELSE bs[i]],
                          words, idx + 1)

unsigned_from_words(T, words) ==
    LET t_words == T.BYTE_SIZE \div WORD_BYTES
    IN IF t_words <= 1 \/ Len(words) > t_words THEN Err
       ELSE IF BIT_SIZE(T) % WORD_BITS # 0
            THEN Panic("A large primitive type not a multiple of word size.")
       ELSE Ok(IntFromLeBytes(CopyWordsLoop(IntToLeBytes(0, T.BYTE_SIZE), words, 0)))

unsigned_from_ubig(T, num) ==
    IF num.tag = "Small" THEN TryFromInt(T, num.word)
    ELSE unsigned_from_words(T, num.buffer.words)

\* signed_from_ubig reinterpreting the unsigned value without the range check
signed_from_ubig_cast(T, num) ==
    IF num.tag = "Small" THEN TryFromInt(T, num.word)
    ELSE unsigned_from_words(UnsignedOf(T), num.buffer.words)

signed_from_ubig(T, num) ==
    IF num.tag = "Small" THEN TryFromInt(T, num.word)
    ELSE LET r == unsigned_from_words(UnsignedOf(T), num.buffer.words)
         IN IF r.status = "ok" THEN TryFromInt(T, r.val) ELSE r

\* TryFrom<UBig> for T
prim_from_ubig(T, num) ==
    IF T.signed THEN signed_from_ubig(T, num) ELSE unsigned_from_ubig(T, num)

----------------------------------------------------------------------------
(* Shift counts of every operand type, and the shift entry points *)

CountUnsigned(x) == [kind |-> "unsigned", n |-> x]

CountUBig(x) == [kind |-> "ubig", big |-> x]

CountSigned(x) == [kind |-> "signed", n |-> x]

CountIBig(sign, mag) == [kind |-> "ibig", sign |-> sign, big |-> mag]

\* TryInto::<usize>::try_into(rhs)
try_into_usize(rhs) ==
    IF rhs.kind = "ubig" THEN unsigned_from_ubig(Usize, rhs.big)
    ELSE TryFromInt(Usize, rhs.n)

shl_unsigned(self, rhs) ==
    IF is_zero(self) THEN Ok(self)
    ELSE LET r == try_into_usize(rhs)
         IN IF r.status = "ok" THEN Ok(shl_usize(self, r.val)) ELSE panic_too_large

\* shl_ref_unsigned answering zero for a count that does not fit, as the right shift does
shl_ref_unsigned_zero(self, rhs) ==
    IF is_zero(self) THEN Ok(from_word(0))
    ELSE LET r == try_into_usize(rhs)
         IN IF r.status = "ok" THEN Ok(shl_ref_usize(self, r.val)) ELSE Ok(from_word(0))

shl_ref_unsigned(self, rhs) ==
    IF is_zero(self) THEN Ok(from_word(0))
    ELSE LET r == try_into_usize(rhs)
         IN IF r.status = "ok" THEN Ok(shl_ref_usize(self, r.val)) ELSE panic_too_large

shr_unsigned(self, rhs) ==
    LET r == try_into_usize(rhs)
    IN IF r.status = "ok" THEN Ok(shr_usize(self, r.val)) ELSE Ok(from_word(0))

shr_ref_unsigned(self, rhs) ==
    LET r == try_into_usize(rhs)
    IN IF r.status = "ok" THEN Ok(shr_ref_usize(self, r.val)) ELSE Ok(from_word(0))

\* PrimitiveSigned::to_sign_magnitude
to_sign_magnitude(x) ==
    IF x >= 0 THEN [sign |-> "Positive", mag |-> x] ELSE [sign |-> "Negative", mag |-> 0 - x]

shl_signed(self, rhs) ==
    LET sm == to_sign_magnitude(rhs.n)
    IN IF sm.sign = "Positive" THEN shl_unsigned(self, CountUnsigned(sm.mag))
       ELSE panic_shift_negative

shl_ref_signed(self, rhs) ==
    LET sm == to_sign_magnitude(rhs.n)
    IN IF sm.sign = "Positive" THEN shl_ref_unsigned(self, CountUnsigned(sm.mag))
       ELSE panic_shift_negative

\* shr_signed shifting by the magnitude whatever the sign
shr_signed_abs(self, rhs) ==
    shr_unsigned(self, CountUnsigned(to_sign_magnitude(rhs.n).mag))

shr_signed(self, rhs) ==
    LET sm == to_sign_magnitude(rhs.n)
    IN IF sm.sign = "Positive" THEN shr_unsigned(self, CountUnsigned(sm.mag))
       ELSE panic_shift_negative

shr_ref_signed(self, rhs) ==
    LET sm == to_sign_magnitude(rhs.n)
    IN IF sm.sign = "Positive" THEN shr_ref_unsigned(self, CountUnsigned(sm.mag))
       ELSE panic_shift_negative

\* impl Shl<&IBig> for UBig
shl_ibig(self, rhs) ==
    IF rhs.sign = "Positive" THEN shl_unsigned(self, CountUBig(rhs.big))
    ELSE panic_shift_negative

\* impl Shl<&IBig> for &UBig
shl_ref_ibig(self, rhs) ==
    IF rhs.sign = "Positive" THEN shl_ref_unsigned(self, CountUBig(rhs.big))
    ELSE panic_shift_negative

\* impl Shr<&IBig> for UBig
shr_ibig(self, rhs) ==
    IF rhs.sign = "Positive" THEN shr_unsigned(self, CountUBig(rhs.big))
    ELSE panic_shift_negative

\* impl Shr<&IBig> for &UBig
shr_ref_ibig(self, rhs) ==
    IF rhs.sign = "Positive" THEN shr_ref_unsigned(self, CountUBig(rhs.big))
    ELSE panic_shift_negative

\* the Shl impls for UBig (owned) and &UBig, dispatched on the type of rhs
ubig_shl(self, rhs, owned) ==
    CASE rhs.kind \in {"unsigned", "ubig"} ->
             IF owned THEN shl_unsigned(self, rhs) ELSE shl_ref_unsigned(self, rhs)
      [] rhs.kind = "signed" ->
             IF owned THEN shl_signed(self, rhs) ELSE shl_ref_signed(self, rhs)
      [] rhs.kind = "ibig" ->
             IF owned THEN shl_ibig(self, rhs) ELSE shl_ref_ibig(self, rhs)

\* the Shr impls for UBig (owned) and &UBig, dispatched on the type of rhs
ubig_shr(self, rhs, owned) ==
    CASE rhs.kind \in {"unsigned", "ubig"} ->
             IF owned THEN shr_unsigned(self, rhs) ELSE shr_ref_unsigned(self, rhs)
      [] rhs.kind = "signed" ->
             IF owned THEN shr_signed(self, rhs) ELSE shr_ref_signed(self, rhs)
      [] rhs.kind = "ibig" ->
             IF owned THEN shr_ibig(self, rhs) ELSE shr_ref_ibig(self, rhs)

----------------------------------------------------------------------------
(* IBig on the left of a shift, shift.rs *)

from_sign_magnitude(sign, mag) ==
    [sign |-> IF is_zero(mag) THEN "Positive" ELSE sign, mag |-> mag]

\* shl_impl dropping the sign of the receiver
ibig_shl_impl_unsigned(self, rhs, owned) ==
    LET r == ubig_shl(self.mag, rhs, owned)
    IN IF r.status = "ok" THEN Ok(from_sign_magnitude("Positive", r.val)) ELSE r

\* IBig::shl_impl (owned) and IBig::shl_ref_impl
ibig_shl_impl(self, rhs, owned) ==
    LET r == ubig_shl(self.mag, rhs, owned)
    IN IF r.status = "ok" THEN Ok(from_sign_magnitude(self.sign, r.val)) ELSE r

----------------------------------------------------------------------------
(* Radixes and digits, radix.rs *)

MAX_RADIX == 36

is_radix_valid(radix) == 2 <= radix /\ radix <= MAX_RADIX

panic_invalid_radix == Panic("Invalid radix")

check_radix_valid(radix) ==
    IF is_radix_valid(radix) THEN Ok(radix) ELSE panic_invalid_radix

LowerDigits ==
    <<"0", "1", "2", "3", "4", "5", "6", "7", "8", "9", "a", "b", "c", "d", "e", "f", "g", "h",
      "i", "j", "k", "l", "m", "n", "o", "p", "q", "r", "s", "t", "u", "v", "w", "x", "y", "z">>

UpperDigits ==
    <<"0", "1", "2", "3", "4", "5", "6", "7", "8", "9", "A", "B", "C", "D", "E", "F", "G", "H",
      "I", "J", "K", "L", "M", "N", "O", "P", "Q", "R", "S", "T", "U", "V", "W", "X", "Y", "Z">>

digit_to_ascii(digit, digit_case) ==
    IF digit_case = "Lower" THEN LowerDigits[digit + 1] ELSE UpperDigits[digit + 1]

\* u32::is_power_of_two
is_power_of_two(x) == \E k \in 0 .. 30 : x = Pow2(k)

\* u32::trailing_zeros of a nonzero number
RECURSIVE trailing_zeros(_)
trailing_zeros(x) == IF x % 2 = 1 THEN 0 ELSE 1 + trailing_zeros(x \div 2)

\* the largest g with radix^g fitting in a word, and that power
RECURSIVE DigitsLoop(_, _, _)
DigitsLoop(radix, digits, range) ==
    IF range * radix > WORD_MAX THEN [digits_per_word |-> digits, range_per_word |-> range]
    ELSE DigitsLoop(radix, digits + 1, range * radix)

radix_info(radix) == DigitsLoop(radix, 0, 1)

\* the digits of the largest word in radix 3
MAX_WORD_DIGITS_NON_POW_2 == radix_info(3).digits_per_word + 1

\* FastDivideSmall::div_rem
div_rem(a, d) == [quot |-> a \div d, rem |-> a % d]

\* the words, least significant first, of a number in a buffer of n words
RECURSIVE WordsOfInt(_, _)
WordsOfInt(x, n) ==
    IF n = 0 THEN <<>> ELSE <<x % Pow2(WORD_BITS)>> \o WordsOfInt(x \div Pow2(WORD_BITS), n - 1)

\* div::fast_div_by_word_in_place: the quotient stays in the buffer
fast_div_by_word_in_place(words, d) ==
    LET x == SeqValue(words, Pow2(WORD_BITS))
    IN [words |-> WordsOfInt(x \div d, Len(words)), rem |-> x % d]

----------------------------------------------------------------------------
(* Numbers prepared for formatting, fmt.rs.  A string is a sequence of       *)
(* one-character strings.                                                    *)

Max(a, b) == IF a >= b THEN a ELSE b

\* PreparedWordInPow2::new
PreparedWordInPow2_new(word, radix) ==
    LET log_radix == trailing_zeros(radix)
    IN [kind |-> "WordInPow2", word |-> word, log_radix |-> log_radix,
        width |-> Max((WORD_BITS - leading_zeros(word) + log_radix - 1) \div log_radix, 1)]

\* PreparedWordInPow2::write: digits[width - 1 - idx] holds digit idx
PreparedWordInPow2_write(p, digit_case) ==
    LET mask == Pow2(p.log_radix)
    IN [i \in 1 .. p.width |->
           digit_to_ascii(WordShr(p.word, (p.width - i) * p.log_radix) % mask, digit_case)]

\* PreparedLargeInPow2::new counting whole digits only
PreparedLargeInPow2_new_floor(words, radix) ==
    LET log_radix == trailing_zeros(radix)
    IN [kind |-> "LargeInPow2", words |-> words, log_radix |-> log_radix,
        width |-> Max((Len(words) * WORD_BITS - leading_zeros(words[Len(words)]))
                          \div log_radix, 1)]

\* PreparedLargeInPow2::new
PreparedLargeInPow2_new(words, radix) ==
    LET log_radix == trailing_zeros(radix)
    IN [kind |-> "LargeInPow2", words |-> words, log_radix |-> log_radix,
        width |-> Max((Len(words) * WORD_BITS - leading_zeros(words[Len(words)])
                          + (log_radix - 1)) \div log_radix, 1)]

MAX_BUFFER_LEN == 32

\* the loop entered with a whole word of bits to write
LargeInPow2Start_whole_word(p) ==
    [done |-> FALSE, it |-> Len(p.words) - 1, word |-> p.words[Len(p.words)],
     bits |-> WORD_BITS, buffer |-> <<>>, out |-> <<>>, shifted |-> {}]

\* PreparedLargeInPow2::write up to its loop: it is the number of words the
\* iterator has yet to give, out what the writer has received, shifted the
\* counts words were shifted by in the last turn
LargeInPow2Start(p) ==
    [done |-> FALSE, it |-> Len(p.words) - 1, word |-> p.words[Len(p.words)],
     bits |-> p.width * p.log_radix - (Len(p.words) - 1) * WORD_BITS,
     buffer |-> <<>>, out |-> <<>>, shifted |-> {}]

\* one turn of the loop of PreparedLargeInPow2::write
LargeInPow2Turn(p, digit_case, s) ==
    LET mask == Pow2(p.log_radix)
        emit(digit, it2, word2, bits2, shifted) ==
            LET b2 == Append(s.buffer, digit_to_ascii(digit, digit_case))
            IN [done |-> FALSE, it |-> it2, word |-> word2, bits |-> bits2,
                buffer |-> IF Len(b2) = MAX_BUFFER_LEN THEN <<>> ELSE b2,
                out |-> IF Len(b2) = MAX_BUFFER_LEN THEN s.out \o b2 ELSE s.out,
                shifted |-> shifted]
    IN IF s.bits < p.log_radix
       THEN IF s.it > 0
            THEN LET w == p.words[s.it]
                     extra_bits == p.log_radix - s.bits
                     nbits == WORD_BITS - extra_bits
                 IN emit(BitOr(WordShl(s.word, extra_bits), WordShr(w, nbits)) % mask,
                         s.it - 1, w, nbits, {extra_bits, nbits})
            ELSE [s EXCEPT !.done = TRUE, !.shifted = {}]
       ELSE emit(WordShr(s.word, s.bits - p.log_radix) % mask, s.it, s.word,
                 s.bits - p.log_radix, {s.bits - p.log_radix})

\* the loop of PreparedLargeInPow2::write, and the last write after it
RECURSIVE LargeInPow2Loop(_, _, _)
LargeInPow2Loop(p, digit_case, s) ==
    IF s.done THEN s.out \o s.buffer
    ELSE LargeInPow2Loop(p, digit_case, LargeInPow2Turn(p, digit_case, s))

\* PreparedLargeInPow2::write
PreparedLargeInPow2_write(p, digit_case) ==
    LargeInPow2Loop(p, digit_case, LargeInPow2Start(p))

\* the loop of PreparedWordInNonPow2::new: digits holds digits[start_index..]
RECURSIVE WordInNonPow2Loop(_, _, _, _, _)
WordInNonPow2Loop(word, radix, digit_case, max_start, prepared) ==
    IF prepared.start_index > max_start \/ word # 0
    THEN LET qr == div_rem(word, radix)
         IN WordInNonPow2Loop(qr.quot, radix, digit_case, max_start,
                [prepared EXCEPT !.start_index = @ - 1,
                                 !.digits = <<digit_to_ascii(qr.rem, digit_case)>> \o @])
    ELSE prepared

\* PreparedWordInNonPow2::new
PreparedWordInNonPow2_new(word, radix, digit_case, min_digits) ==
    WordInNonPow2Loop(word, radix, digit_case, MAX_WORD_DIGITS_NON_POW_2 - min_digits,
        [kind |-> "WordInNonPow2", digits |-> <<>>, start_index |-> MAX_WORD_DIGITS_NON_POW_2])

\* the loop going on for as long as the buffer is not empty
LowGroupsMore_nonempty(buffer) == Len(buffer.words) > 0

\* the condition of the loop of PreparedLargeInNonPow2::new
LowGroupsMore(buffer) == Len(buffer.words) > 1

\* one turn of the loop of PreparedLargeInNonPow2::new
LowGroupsStep(buffer, radix, low_groups) ==
    LET d == fast_div_by_word_in_place(buffer.words, radix_info(radix).range_per_word)
    IN [buffer |-> pop_leading_zeros([buffer EXCEPT !.words = d.words]),
        low_groups |-> Append(low_groups, d.rem)]

\* the loop of PreparedLargeInNonPow2::new
RECURSIVE LowGroupsLoop(_, _, _)
LowGroupsLoop(buffer, radix, low_groups) ==
    IF LowGroupsMore(buffer)
    THEN LET s == LowGroupsStep(buffer, radix, low_groups)
         IN LowGroupsLoop(s.buffer, radix, s.low_groups)
    ELSE [buffer |-> buffer, low_groups |-> low_groups]

\* PreparedLargeInNonPow2::new
PreparedLargeInNonPow2_new(words, radix, digit_case) ==
    LET r == LowGroupsLoop([words |-> words, cap |-> Len(words)], radix, <<>>)
    IN [kind |-> "LargeInNonPow2",
        top_group |-> PreparedWordInNonPow2_new(r.buffer.words[1], radix, digit_case, 1),
        low_groups |-> r.low_groups, radix |-> radix]

\* the low groups written with as few digits as each has
RECURSIVE WriteLowGroups_unpadded(_, _, _, _)
WriteLowGroups_unpadded(low_groups, n, radix, digit_case) ==
    IF n = 0 THEN <<>>
    ELSE PreparedWordInNonPow2_new(low_groups[n], radix, digit_case, 1).digits
         \o WriteLowGroups_unpadded(low_groups, n - 1, radix, digit_case)

\* the low groups written from the most significant one
RECURSIVE WriteLowGroups(_, _, _, _)
WriteLowGroups(low_groups, n, radix, digit_case) ==
    IF n = 0 THEN <<>>
    ELSE PreparedWordInNonPow2_new(low_groups[n], radix, digit_case,
                                   radix_info(radix).digits_per_word).digits
         \o WriteLowGroups(low_groups, n - 1, radix, digit_case)

\* width counting the top group as a whole group
width_whole_groups(p) ==
    CASE p.kind \in {"WordInPow2", "LargeInPow2"} -> p.width
      [] p.kind = "WordInNonPow2" -> MAX_WORD_DIGITS_NON_POW_2 - p.start_index
      [] p.kind = "LargeInNonPow2" ->
             (Len(p.low_groups) + 1) * radix_info(p.radix).digits_per_word

\* PreparedForFormatting::width
width(p) ==
    CASE p.kind \in {"WordInPow2", "LargeInPow2"} -> p.width
      [] p.kind = "WordInNonPow2" -> MAX_WORD_DIGITS_NON_POW_2 - p.start_index
      [] p.kind = "LargeInNonPow2" ->
             (MAX_WORD_DIGITS_NON_POW_2 - p.top_group.start_index)
                 + Len(p.low_groups) * radix_info(p.radix).digits_per_word

\* PreparedForFormatting::write
write(p, digit_case) ==
    CASE p.kind = "WordInPow2" -> PreparedWordInPow2_write(p, digit_case)
      [] p.kind = "LargeInPow2" -> PreparedLargeInPow2_write(p, digit_case)
      [] p.kind = "WordInNonPow2" -> p.digits
      [] p.kind = "LargeInNonPow2" ->
             p.top_group.digits
                 \o WriteLowGroups(p.low_groups, Len(p.low_groups), p.radix, digit_case)

----------------------------------------------------------------------------
(* Formatting, fmt.rs *)

None == [some |-> FALSE]

Some(x) == [some |-> TRUE, val |-> x]

\* n copies of the character c
Repeat(c, n) == [i \in 1 .. n |-> c]

\* in_radix building the formatter without looking at the radix
in_radix_unchecked(sign, magnitude, radix) ==
    Ok([sign |-> sign, magnitude |-> magnitude, radix |-> radix, prefix |-> <<>>,
        digit_case |-> "None"])

\* UBig::in_radix (sign Positive) and IBig::in_radix
in_radix(sign, magnitude, radix) ==
    LET c == check_radix_valid(radix)
    IN IF c.status = "ok"
       THEN Ok([sign |-> sign, magnitude |-> magnitude, radix |-> radix, prefix |-> <<>>,
                digit_case |-> "None"])
       ELSE c

\* the InRadix the formatting traits of UBig (sign Positive) and IBig build
trait_in_radix(trait, sign, magnitude, f) ==
    LET alt(prefix) == IF f.alternate THEN prefix ELSE <<>>
    IN CASE trait \in {"Display", "Debug"} ->
                [sign |-> sign, magnitude |-> magnitude, radix |-> 10, prefix |-> <<>>,
                 digit_case |-> "Lower"]
         [] trait = "Binary" ->
                [sign |-> sign, magnitude |-> magnitude, radix |-> 2,
                 prefix |-> alt(<<"0", "b">>), digit_case |-> "Lower"]
         [] trait = "Octal" ->
                [sign |-> sign, magnitude |-> magnitude, radix |-> 8,
                 prefix |-> alt(<<"0", "o">>), digit_case |-> "Lower"]
         [] trait = "LowerHex" ->
                [sign |-> sign, magnitude |-> magnitude, radix |-> 16,
                 prefix |-> alt(<<"0", "x">>), digit_case |-> "Lower"]
         [] trait = "UpperHex" ->
                [sign |-> sign, magnitude |-> magnitude, radix |-> 16,
                 prefix |-> alt(<<"0", "x">>), digit_case |-> "Upper"]

\* the sign of format_prepared with the flag tested first
sign_str_plus_first(self, f) ==
    IF f.sign_plus THEN <<"+">> ELSE IF self.sign = "Negative" THEN <<"-">> ELSE <<>>

\* the sign written by format_prepared
sign_str(self, f) ==
    IF self.sign = "Negative" THEN <<"-">> ELSE IF f.sign_plus THEN <<"+">> ELSE <<>>

\* center alignment giving the odd character to the left
left_padding_ceil(f, pad) ==
    CASE f.align = "Left" -> 0
      [] f.align \in {"Right", "None"} -> pad
      [] f.align = "Center" -> (pad + 1) \div 2

\* the fill characters format_prepared writes before a number pad short
left_padding(f, pad) ==
    CASE f.align = "Left" -> 0
      [] f.align \in {"Right", "None"} -> pad
      [] f.align = "Center" -> pad \div 2

\* format_prepared padding with zeros in front of the sign
format_prepared_zero_first(self, f, digit_case, prepared) ==
    LET sign == sign_str(self, f)
        w == width(prepared) + Len(sign) + Len(self.prefix)
        digits == write(prepared, digit_case)
    IN IF ~f.width.some THEN sign \o self.prefix \o digits
       ELSE LET min_width == f.width.val
            IN IF w >= min_width THEN sign \o self.prefix \o digits
               ELSE IF f.sign_aware_zero_pad
                    THEN Repeat("0", min_width - w) \o sign \o self.prefix \o digits
                    ELSE LET left == left_padding(f, min_width - w)
                         IN Repeat(f.fill, left) \o sign \o self.prefix \o digits
                                \o Repeat(f.fill, (min_width - w) - left)

\* InRadix::format_prepared
format_prepared(self, f, digit_case, prepared) ==
    LET sign == sign_str(self, f)
        w == width(prepared) + Len(sign) + Len(self.prefix)
        digits == write(prepared, digit_case)
    IN IF ~f.width.some THEN sign \o self.prefix \o digits
       ELSE LET min_width == f.width.val
            IN IF w >= min_width THEN sign \o self.prefix \o digits
               ELSE IF f.sign_aware_zero_pad
                    THEN sign \o self.prefix \o Repeat("0", min_width - w) \o digits
                    ELSE LET left == left_padding(f, min_width - w)
                         IN Repeat(f.fill, left) \o sign \o self.prefix \o digits
                                \o Repeat(f.fill, (min_width - w) - left)

\* the digit case of an InRadix, lower unless the InRadix names one
digit_case_of_lower(self, f) ==
    IF self.digit_case = "None" THEN "Lower" ELSE self.digit_case

\* the digit case an InRadix is written in
digit_case_of(self, f) ==
    IF self.digit_case = "None" THEN (IF f.alternate THEN "Upper" ELSE "Lower")
    ELSE self.digit_case

\* the prepared number of <InRadix as Display>::fmt
prepare(self, digit_case) ==
    IF is_power_of_two(self.radix)
    THEN IF self.magnitude.tag = "Small"
         THEN PreparedWordInPow2_new(self.magnitude.word, self.radix)
         ELSE PreparedLargeInPow2_new(self.magnitude.buffer.words, self.radix)
    ELSE IF self.magnitude.tag = "Small"
         THEN PreparedWordInNonPow2_new(self.magnitude.word, self.radix, digit_case, 1)
         ELSE PreparedLargeInNonPow2_new(self.magnitude.buffer.words, self.radix, digit_case)

\* <InRadix as Display>::fmt
InRadix_fmt(self, f) ==
    LET digit_case == digit_case_of(self, f)
    IN format_prepared(self, f, digit_case, prepare(self, digit_case))

----------------------------------------------------------------------------
(* The modular ring and its elements, modular/convert.rs.  A ring holds the  *)
(* modulus shifted left until its top bit is set, and the shift; an element  *)
(* holds its residue shifted by as much.                                     *)

panic_divide_by_0 == Panic("divide by zero")

panic_assert == Panic("assertion failed")

\* ModuloRing::new
ModuloRing_new(n) ==
    IF Value(n) <= 1 THEN panic_divide_by_0
    ELSE IF n.tag = "Small"
         THEN LET s == leading_zeros(n.word)
              IN Ok([tag |-> "Small", normalized_modulus |-> WordShl(n.word, s), shift |-> s])
         ELSE LET ws == n.buffer.words
                  s == leading_zeros(ws[Len(ws)])
              IN Ok([tag |-> "Large",
                     normalized_modulus |-> WordsOfInt(Value(n) * Pow2(s), Len(ws)),
                     shift |-> s])

\* primitive::extend_word and << on a DoubleWord
DoubleWordShl(word, n) == (word * Pow2(n)) % Pow2(2 * WORD_BITS)

\* div::fast_rem_by_normalized_word
fast_rem_by_normalized_word(words, d) == SeqValue(words, Pow2(WORD_BITS)) % d

\* div::div_rem_in_place: the remainder in the low words, the quotient above
div_rem_in_place(words, modulus) ==
    LET a == SeqValue(words, Pow2(WORD_BITS))
        d == SeqValue(modulus, Pow2(WORD_BITS))
    IN WordsOfInt(a % d, Len(modulus)) \o WordsOfInt(a \div d, Len(words) - Len(modulus))

\* shift::shr_in_place: the words shifted, and the bits shifted out
shr_in_place(words, shift) ==
    LET a == SeqValue(words, Pow2(WORD_BITS))
    IN [words |-> WordsOfInt(a \div Pow2(shift), Len(words)), low_bits |-> a % Pow2(shift)]

\* modulus() returning the modulus as the ring stores it
ModuloRingSmall_modulus_normalized(ring) == ring.normalized_modulus

\* ModuloRingSmall::modulus
ModuloRingSmall_modulus(ring) == WordShr(ring.normalized_modulus, ring.shift)

\* ModuloRingLarge::modulus
ModuloRingLarge_modulus(ring) ==
    LET normalized_modulus == ring.normalized_modulus
        buffer == Extend(Allocate(Len(normalized_modulus)), normalized_modulus)
        shifted == shr_in_place(buffer.words, ring.shift)
    IN IF shifted.low_bits = 0 THEN Ok(BufferInto([buffer EXCEPT !.words = shifted.words]))
       ELSE panic_assert

\* ModuloRing::modulus
ModuloRing_modulus(ring) ==
    IF ring.tag = "Small" THEN Ok(from_word(ModuloRingSmall_modulus(ring)))
    ELSE ModuloRingLarge_modulus(ring)

\* ModuloRingSmall::normalize_word
normalize_word(ring, word) ==
    IF ring.shift = 0 THEN div_rem(word, ring.normalized_modulus).rem
    ELSE div_rem(DoubleWordShl(word, ring.shift), ring.normalized_modulus).rem

\* ModuloRingSmall::normalize_large
normalize_large(ring, words) ==
    LET rem == fast_rem_by_normalized_word(words, ring.normalized_modulus)
    IN IF ring.shift = 0 THEN rem
       ELSE div_rem(DoubleWordShl(rem, ring.shift), ring.normalized_modulus).rem

ModuloSmall_new(normalized_value, ring) ==
    [tag |-> "Small", ring |-> ring, normalized_value |-> normalized_value]

ModuloLarge_new(normalized_value, ring) ==
    [tag |-> "Large", ring |-> ring, normalized_value |-> normalized_value]

\* ModuloSmall::from_ubig
ModuloSmall_from_ubig(x, ring) ==
    ModuloSmall_new(IF x.tag = "Small" THEN normalize_word(ring, x.word)
                    ELSE normalize_large(ring, x.buffer.words), ring)

\* the words ModuloLarge::from_ubig keeps of the shifted value
LargeReduce(x, modulus) ==
    LET vec == IF x.tag = "Small" THEN <<x.word>>
               ELSE IF Len(x.buffer.words) < Len(modulus) THEN x.buffer.words
               ELSE SubSeq(div_rem_in_place(x.buffer.words, modulus), 1, Len(modulus))
    IN vec \o Zeros(Len(modulus) - Len(vec))

\* ModuloLarge::from_ubig reducing the value as it is given
ModuloLarge_from_ubig_unshifted(x, ring) ==
    ModuloLarge_new(LargeReduce(x, ring.normalized_modulus), ring)

\* ModuloLarge::from_ubig
ModuloLarge_from_ubig(x, ring) ==
    ModuloLarge_new(LargeReduce(ubig_shl(x, CountUnsigned(ring.shift), TRUE).val,
                                ring.normalized_modulus), ring)

\* Neg for Modulo
ModuloNeg(modulo) ==
    IF modulo.tag = "Small"
    THEN [modulo EXCEPT !.normalized_value =
              IF @ = 0 THEN 0 ELSE modulo.ring.normalized_modulus - @]
    ELSE LET v == SeqValue(modulo.normalized_value, Pow2(WORD_BITS))
             m == SeqValue(modulo.ring.normalized_modulus, Pow2(WORD_BITS))
         IN [modulo EXCEPT !.normalized_value =
                 IF v = 0 THEN @ ELSE WordsOfInt(m - v, Len(@))]

\* IntoModulo for UBig, &UBig (sign Positive) and IBig, &IBig
into_modulo(sign, magnitude, ring) ==
    LET modulo == IF ring.tag = "Small" THEN ModuloSmall_from_ubig(magnitude, ring)
                  ELSE ModuloLarge_from_ubig(magnitude, ring)
    IN IF sign = "Positive" THEN modulo ELSE ModuloNeg(modulo)

\* ModuloSmall::residue
ModuloSmall_residue(modulo) == WordShr(modulo.normalized_value, modulo.ring.shift)

\* ModuloLarge::residue
ModuloLarge_residue(modulo) ==
    LET words == modulo.normalized_value
        buffer == Extend(Allocate(Len(words)), words)
        r == shr_in_place(buffer.words, modulo.ring.shift)
    IN IF r.low_bits = 0 THEN Ok(BufferInto([buffer EXCEPT !.words = r.words]))
       ELSE panic_assert

\* Modulo::residue
residue(modulo) ==
    IF modulo.tag = "Small" THEN Ok(from_word(ModuloSmall_residue(modulo)))
    ELSE ModuloLarge_residue(modulo)

----------------------------------------------------------------------------
(* Multiplication of ring elements, modular/mul.rs.  An element refers to    *)
(* its ring by address: RingAt gives a ring record the address it lives at.  *)

RingAt(ring, addr) ==
    [tag |-> ring.tag, normalized_modulus |-> ring.normalized_modulus, shift |-> ring.shift,
     addr |-> addr]

panic_different_rings == Panic("Modulo values from different rings")

\* check_same_ring: the two elements refer to the same ring record
same_ring(self, rhs) == self.ring.addr = rhs.ring.addr

\* mul_by_normalized_value_in_place multiplying the two shifted values as they are
mul_by_normalized_value_in_place_unshifted(self, normalized_value) ==
    LET ring == self.ring
        product == (self.normalized_value * normalized_value) % Pow2(2 * WORD_BITS)
    IN [self EXCEPT !.normalized_value = div_rem(product, ring.normalized_modulus).rem]

\* ModuloSmall::mul_by_normalized_value_in_place
mul_by_normalized_value_in_place(self, normalized_value) ==
    LET ring == self.ring
        self_val == WordShr(self.normalized_value, ring.shift)
        product == (self_val * normalized_value) % Pow2(2 * WORD_BITS)
    IN [self EXCEPT !.normalized_value = div_rem(product, ring.normalized_modulus).rem]

\* mul::add_signed_mul_same_len on a slot of len words: the slot plus a * b,
\* and the carry out of the slot
add_signed_mul_same_len(product, a, b) ==
    LET base == Pow2(WORD_BITS)
        sum == SeqValue(product, base) + SeqValue(a, base) * SeqValue(b, base)
    IN [words |-> WordsOfInt(sum, Len(product)), overflow |-> sum \div Pow2(Len(product) * WORD_BITS)]

\* mul_normalized_values handing back the low words of the shifted product
mul_normalized_values_undivided(ring, a, b) ==
    LET n == Len(ring.normalized_modulus)
        product == add_signed_mul_same_len(Zeros(2 * n), a, b)
        shifted == shr_in_place(product.words, ring.shift).words
    IN [overflow |-> product.overflow, shifted |-> shifted, words |-> SubSeq(shifted, 1, n)]

\* mul_normalized_values with a product slot of n words
mul_normalized_values_short_slot(ring, a, b) ==
    LET modulus == ring.normalized_modulus
        n == Len(modulus)
        product == add_signed_mul_same_len(Zeros(n), a, b)
        shifted == shr_in_place(product.words, ring.shift).words
    IN [overflow |-> product.overflow, shifted |-> shifted,
        words |-> SubSeq(div_rem_in_place(shifted \o Zeros(n), modulus), 1, n)]

\* ModuloRingLarge::mul_normalized_values: the carry of the product, the
\* product shifted right, and the low words left by the division
mul_normalized_values(ring, a, b) ==
    LET modulus == ring.normalized_modulus
        n == Len(modulus)
        product == add_signed_mul_same_len(Zeros(2 * n), a, b)
        shifted == shr_in_place(product.words, ring.shift).words
    IN [overflow |-> product.overflow, shifted |-> shifted,
        words |-> SubSeq(div_rem_in_place(shifted, modulus), 1, n)]

\* a panic raised while self is borrowed mutably: self is what it leaves behind
PanicWith(p, self) == [status |-> "panic", msg |-> p.msg, self |-> self]

\* ModuloLarge::mul_normalized_value_in_place
mul_normalized_value_in_place(self, normalized_value) ==
    LET r == mul_normalized_values(self.ring, self.normalized_value, normalized_value)
    IN IF r.overflow = 0 THEN Ok([self EXCEPT !.normalized_value = r.words])
       ELSE PanicWith(panic_assert, self)

\* mul_assign telling rings apart by their moduli, not by the record
mul_assign_by_modulus(self, rhs) ==
    IF self.tag = "Small" /\ rhs.tag = "Small"
    THEN IF self.ring.normalized_modulus = rhs.ring.normalized_modulus
            /\ self.ring.shift = rhs.ring.shift
         THEN Ok(mul_by_normalized_value_in_place(self, rhs.normalized_value))
         ELSE PanicWith(panic_different_rings, self)
    ELSE IF self.tag = "Large" /\ rhs.tag = "Large"
         THEN IF self.ring.normalized_modulus = rhs.ring.normalized_modulus
                 /\ self.ring.shift = rhs.ring.shift
              THEN mul_normalized_value_in_place(self, rhs.normalized_value)
              ELSE PanicWith(panic_different_rings, self)
         ELSE PanicWith(panic_different_rings, self)

\* MulAssign<&Modulo> for Modulo: self afterwards, or the panic
mul_assign(self, rhs) ==
    IF self.tag = "Small" /\ rhs.tag = "Small"
    THEN IF same_ring(self, rhs)
         THEN Ok(mul_by_normalized_value_in_place(self, rhs.normalized_value))
         ELSE PanicWith(panic_different_rings, self)
    ELSE IF self.tag = "Large" /\ rhs.tag = "Large"
         THEN IF same_ring(self, rhs)
              THEN mul_normalized_value_in_place(self, rhs.normalized_value)
              ELSE PanicWith(panic_different_rings, self)
         ELSE PanicWith(panic_different_rings, self)

\* ModuloSmall::square_in_place and ModuloLarge::square_in_place
square_in_place(self) ==
    IF self.tag = "Small" THEN Ok(mul_by_normalized_value_in_place(self, self.normalized_value))
    ELSE mul_normalized_value_in_place(self, self.normalized_value)

\* Mul for Modulo with &x * y multiplying y by itself
Modulo_mul_rhs_only(form, x, y) ==
    CASE form \in {"val_val", "val_ref"} -> mul_assign(x, y)
      [] form = "ref_val" -> mul_assign(y, y)
      [] form = "ref_ref" -> mul_assign(x, y)

\* Mul for Modulo in its four operand forms: x * y, x * &y, &x * y, &x * &y
Modulo_mul(form, x, y) ==
    CASE form \in {"val_val", "val_ref"} -> mul_assign(x, y)
      [] form = "ref_val" -> mul_assign(y, x)
      [] form = "ref_ref" -> mul_assign(x, y)

----------------------------------------------------------------------------
(* Bounds and input sets *)

\* longest byte string given to from_le_bytes / from_be_bytes
MaxBytes == 5

\* largest shift count tried; the counts above USIZE_MAX do not fit in usize
MaxShift == 17

\* longest magnitude, in bits, kept when shifts are chained
MaxBits == 10

ByteSeqs == UNION {[1 .. n -> Bytes] : n \in 0 .. MaxBytes}

PrimSizes == {1, WORD_BYTES, 2 * WORD_BYTES}

PrimTypes == {Unsigned(n) : n \in PrimSizes} \cup {Signed(n) : n \in PrimSizes}

\* a type wide enough for every shift count tried
CountType == Unsigned(2 * WORD_BYTES)

UnsignedCounts == {CountUnsigned(k) : k \in 0 .. MaxShift}

UBigCounts == {CountUBig(ubig_from_unsigned(CountType, k)) : k \in 0 .. MaxShift}

SignedCounts == {CountSigned(k) : k \in {0 - MaxShift, -1, 0, 1, WORD_BITS + 1, MaxShift}}

IBigCounts ==
    {CountIBig("Positive", ubig_from_unsigned(CountType, k)) :
        k \in {0, 1, WORD_BITS + 1, MaxShift}}
    \cup {CountIBig("Negative", ubig_from_unsigned(CountType, k)) : k \in {1, MaxShift}}

Counts == UnsignedCounts \cup UBigCounts \cup SignedCounts \cup IBigCounts

\* the number a shift count stands for
CountValue(rhs) ==
    CASE rhs.kind = "unsigned" -> rhs.n
      [] rhs.kind = "signed" -> rhs.n
      [] rhs.kind = "ubig" -> Value(rhs.big)
      [] rhs.kind = "ibig" -> IF rhs.sign = "Positive" THEN Value(rhs.big) ELSE 0 - Value(rhs.big)

NoCall == [name |-> "none"]

----------------------------------------------------------------------------
(* One operation on one value: u is the operand, call.out the outcome *)

InitValues == {from_le_bytes(b) : b \in ByteSeqs}

Init == u \in InitValues /\ call = NoCall

Shl(rhs, owned) ==
    /\ call = NoCall
    /\ call' = [name |-> "shl", rhs |-> rhs, owned |-> owned, out |-> ubig_shl(u, rhs, owned)]
    /\ UNCHANGED u

Shr(rhs, owned) ==
    /\ call = NoCall
    /\ call' = [name |-> "shr", rhs |-> rhs, owned |-> owned, out |-> ubig_shr(u, rhs, owned)]
    /\ UNCHANGED u

IShl(sign, rhs, owned) ==
    /\ call = NoCall
    /\ sign = "Negative" => ~is_zero(u)
    /\ call' = [name |-> "ishl", sign |-> sign, rhs |-> rhs, owned |-> owned,
                out |-> ibig_shl_impl(from_sign_magnitude(sign, u), rhs, owned)]
    /\ UNCHANGED u

TryIntoPrim(T) ==
    /\ call = NoCall
    /\ call' = [name |-> "try_into", T |-> T, out |-> prim_from_ubig(T, u)]
    /\ UNCHANGED u

Next ==
    \/ \E rhs \in Counts, owned \in BOOLEAN : Shl(rhs, owned)
    \/ \E rhs \in Counts, owned \in BOOLEAN : Shr(rhs, owned)
    \/ \E sign \in {"Positive", "Negative"}, rhs \in Counts, owned \in BOOLEAN :
          IShl(sign, rhs, owned)
    \/ \E T \in PrimTypes : TryIntoPrim(T)

Spec == Init /\ [][Next]_vars

----------------------------------------------------------------------------
(* Construction and byte output: u is the value held, call the last call *)

InitConv == u = from_word(0) /\ call = NoCall

\* the bytes are a fresh input, or the output of a preceding to_*_bytes
BytesInput(b) ==
    \/ call = NoCall /\ b \in ByteSeqs
    \/ call.name \in {"to_le_bytes", "to_be_bytes"} /\ b = call.out

FromLeBytes(b) ==
    /\ BytesInput(b)
    /\ u' = from_le_bytes(b)
    /\ call' = [name |-> "from_le_bytes", bytes |-> b, src |-> call.name, prev |-> u]

FromBeBytes(b) ==
    /\ BytesInput(b)
    /\ u' = from_be_bytes(b)
    /\ call' = [name |-> "from_be_bytes", bytes |-> b, src |-> call.name, prev |-> u]

ToLeBytes ==
    /\ call' = [name |-> "to_le_bytes", out |-> to_le_bytes(u)]
    /\ UNCHANGED u

ToBeBytes ==
    /\ call' = [name |-> "to_be_bytes", out |-> to_be_bytes(u)]
    /\ UNCHANGED u

FromUnsigned(T, x) ==
    /\ call = NoCall
    /\ ~T.signed
    /\ u' = ubig_from_unsigned(T, x)
    /\ call' = [name |-> "from_unsigned", T |-> T, x |-> x, out |-> Ok(u')]

FromSigned(T, x) ==
    /\ call = NoCall
    /\ T.signed
    /\ LET r == ubig_from_signed(T, x)
       IN /\ u' = IF r.status = "ok" THEN r.val ELSE u
          /\ call' = [name |-> "from_signed", T |-> T, x |-> x, out |-> r]

FromBool(b) ==
    /\ call = NoCall
    /\ u' = ubig_from_bool(b)
    /\ call' = [name |-> "from_bool", x |-> b, out |-> Ok(u')]

NextConv ==
    \/ \E b \in ByteSeqs \cup (IF call.name \in {"to_le_bytes", "to_be_bytes"}
                               THEN {call.out} ELSE {}) :
          FromLeBytes(b) \/ FromBeBytes(b)
    \/ ToLeBytes
    \/ ToBeBytes
    \/ \E T \in PrimTypes : \E x \in TMin(T) .. TMax(T) : FromUnsigned(T, x) \/ FromSigned(T, x)
    \/ \E b \in BOOLEAN : FromBool(b)

SpecConv == InitConv /\ [][NextConv]_vars

----------------------------------------------------------------------------
(* Sequences of operations: every value is constructed, then shifted any    *)
(* number of times; u is the current value.                                 *)

BitLength(x) ==
    LET ws == WordsOf(x) IN (Len(ws) - 1) * WORD_BITS + BitLen(ws[Len(ws)])

SeqShl(rhs, owned) ==
    LET r == ubig_shl(u, rhs, owned)
    IN /\ call # NoCall
       /\ r.status = "ok"
       /\ BitLength(r.val) <= MaxBits
       /\ u' = r.val
       /\ call' = [name |-> "shl", was |-> u.tag]

SeqShr(rhs, owned) ==
    LET r == ubig_shr(u, rhs, owned)
    IN /\ call # NoCall
       /\ r.status = "ok"
       /\ u' = r.val
       /\ call' = [name |-> "shr", was |-> u.tag]

NextSeq ==
    \/ \E b \in ByteSeqs : (call = NoCall /\ FromLeBytes(b)) \/ (call = NoCall /\ FromBeBytes(b))
    \/ \E T \in PrimTypes : \E x \in TMin(T) .. TMax(T) : FromUnsigned(T, x) \/ FromSigned(T, x)
    \/ \E b \in BOOLEAN : FromBool(b)
    \/ \E rhs \in UnsignedCounts, owned \in BOOLEAN : SeqShl(rhs, owned)
    \/ \E rhs \in UnsignedCounts, owned \in BOOLEAN : SeqShr(rhs, owned)

SpecSeq == InitConv /\ [][NextSeq]_vars

----------------------------------------------------------------------------
(* Owned and borrowed shifts side by side: u is the current value, shifted   *)
(* any number of times so that its buffer comes to have every spare          *)
(* capacity; call holds what the shift of the owned value and the shift of   *)
(* a reference to it gave.                                                   *)

\* u << rhs and &u << rhs; the shifted owned value is the next u
BothShl(rhs) ==
    LET owned == ubig_shl(u, rhs, TRUE)
    IN /\ owned.status = "ok" => BitLength(owned.val) <= MaxBits
       /\ u' = IF owned.status = "ok" THEN owned.val ELSE u
       /\ call' = [name |-> "shl", rhs |-> rhs, was |-> u, owned |-> owned,
                   ref |-> ubig_shl(u, rhs, FALSE)]

\* u >> rhs and &u >> rhs; the shifted owned value is the next u
BothShr(rhs) ==
    LET owned == ubig_shr(u, rhs, TRUE)
    IN /\ u' = IF owned.status = "ok" THEN owned.val ELSE u
       /\ call' = [name |-> "shr", rhs |-> rhs, was |-> u, owned |-> owned,
                   ref |-> ubig_shr(u, rhs, FALSE)]

NextBoth ==
    \/ \E rhs \in UnsignedCounts : BothShl(rhs)
    \/ \E rhs \in UnsignedCounts : BothShr(rhs)

SpecBoth == Init /\ [][NextBoth]_vars

----------------------------------------------------------------------------
(* Formatting one value: u is the magnitude, call the last call.  A radix    *)
(* above 2^WORD_BITS is given to in_radix but not formatted: on every target *)
(* the radixes fit in a word, with the scaled word only these do.            *)

\* longest byte string a formatted magnitude is built from
MaxFmtBytes == 2

\* the minimum width asked of the formatter
MaxWidth == 6

\* every byte string up to MaxFmtBytes, and the longer ones of one repeated byte
FmtBytes ==
    UNION {[1 .. n -> Bytes] : n \in 0 .. MaxFmtBytes}
    \cup {[i \in 1 .. n |-> b] : n \in MaxFmtBytes + 1 .. MaxFmtBytes + 4, b \in Bytes}

FmtValues == {from_le_bytes(b) : b \in FmtBytes}

Signs == {"Positive", "Negative"}

Traits == {"Display", "Debug", "Binary", "Octal", "LowerHex", "UpperHex"}

Formatters ==
    [width : {None}, fill : {" "}, align : {"None"}, sign_plus : BOOLEAN,
     sign_aware_zero_pad : {FALSE}, alternate : BOOLEAN]
    \cup [width : {Some(MaxWidth)}, fill : {" ", "*"},
          align : {"None", "Left", "Right", "Center"}, sign_plus : BOOLEAN,
          sign_aware_zero_pad : BOOLEAN, alternate : BOOLEAN]

InitFmt == u \in FmtValues /\ call = NoCall

\* x.in_radix(radix) for a UBig (sign Positive) or an IBig x
InRadix(sign, radix) ==
    /\ call = NoCall
    /\ sign = "Negative" => ~is_zero(u)
    /\ call' = [name |-> "in_radix", sign |-> sign, radix |-> radix,
                out |-> in_radix(sign, u, radix)]
    /\ UNCHANGED u

\* format!(.., x.in_radix(radix)) with the formatter f
FmtInRadix(f) ==
    /\ call.name = "in_radix"
    /\ call.out.status = "ok"
    /\ call.out.val.radix <= Pow2(WORD_BITS)
    /\ call' = [name |-> "fmt", via |-> "in_radix", self |-> call.out.val, f |-> f,
                out |-> InRadix_fmt(call.out.val, f)]
    /\ UNCHANGED u

\* format!(.., x) through one of the formatting traits of UBig and IBig
FmtTrait(trait, sign, f) ==
    /\ call = NoCall
    /\ sign = "Negative" => ~is_zero(u)
    /\ LET self == trait_in_radix(trait, sign, u, f)
       IN call' = [name |-> "fmt", via |-> trait, self |-> self, f |-> f,
                   out |-> InRadix_fmt(self, f)]
    /\ UNCHANGED u

NextFmt ==
    \/ \E sign \in Signs, radix \in 0 .. MAX_RADIX + 1 : InRadix(sign, radix)
    \/ \E f \in Formatters : FmtInRadix(f)
    \/ \E trait \in Traits, sign \in Signs, f \in Formatters : FmtTrait(trait, sign, f)

SpecFmt == InitFmt /\ [][NextFmt]_vars

----------------------------------------------------------------------------
(* The loop of PreparedLargeInNonPow2::new taken turn by turn: u is the      *)
(* multi-word number, call the buffer and the groups taken off it so far.    *)

\* the radixes that are no power of two and whose groups fit the model's word
NonPow2Radixes ==
    {radix \in 2 .. WORD_MAX : ~is_power_of_two(radix)}

\* PreparedLargeInNonPow2::new up to its loop
GroupsNew(radix) ==
    /\ call = NoCall
    /\ u.tag = "Large"
    /\ call' = [name |-> "loop", radix |-> radix,
                buffer |-> [words |-> u.buffer.words, cap |-> Len(u.buffer.words)],
                low_groups |-> <<>>]
    /\ UNCHANGED u

\* one turn of the loop
GroupsStep ==
    /\ call.name = "loop"
    /\ LowGroupsMore(call.buffer)
    /\ LET s == LowGroupsStep(call.buffer, call.radix, call.low_groups)
       IN call' = [call EXCEPT !.buffer = s.buffer, !.low_groups = s.low_groups]
    /\ UNCHANGED u

\* the loop left, and the assertion after it
GroupsDone ==
    /\ call.name = "loop"
    /\ ~LowGroupsMore(call.buffer)
    /\ call' = [name |-> "done", radix |-> call.radix, buffer |-> call.buffer,
                low_groups |-> call.low_groups,
                status |-> IF Len(call.buffer.words) = 1 THEN "ok" ELSE "panic"]
    /\ UNCHANGED u

NextGroups ==
    \/ \E radix \in NonPow2Radixes : GroupsNew(radix)
    \/ GroupsStep
    \/ GroupsDone

SpecGroups == InitFmt /\ [][NextGroups]_vars /\ WF_vars(NextGroups)

----------------------------------------------------------------------------
(* The loop of PreparedLargeInPow2::write taken turn by turn: u is the       *)
(* multi-word number, call the prepared number and the state of the loop.    *)

\* the radixes that are a power of two and whose digits fit the model's word
Pow2Radixes == {radix \in 2 .. Pow2(WORD_BITS) : is_power_of_two(radix)}

\* PreparedLargeInPow2::new, and write up to its loop
DigitsNew(radix, digit_case) ==
    /\ call = NoCall
    /\ u.tag = "Large"
    /\ LET p == PreparedLargeInPow2_new(u.buffer.words, radix)
       IN call' = [name |-> "loop", digit_case |-> digit_case, p |-> p,
                   s |-> LargeInPow2Start(p)]
    /\ UNCHANGED u

\* one turn of the loop
DigitsTurn ==
    /\ call.name = "loop"
    /\ ~call.s.done
    /\ call' = [call EXCEPT !.s = LargeInPow2Turn(call.p, call.digit_case, call.s)]
    /\ UNCHANGED u

\* the loop left: the assertion on bits and the last write
DigitsDone ==
    /\ call.name = "loop"
    /\ call.s.done
    /\ call' = [name |-> "done", digit_case |-> call.digit_case, p |-> call.p, s |-> call.s,
                out |-> call.s.out \o call.s.buffer]
    /\ UNCHANGED u

NextDigits ==
    \/ \E radix \in Pow2Radixes, digit_case \in {"Lower", "Upper"} : DigitsNew(radix, digit_case)
    \/ DigitsTurn
    \/ DigitsDone

SpecDigits == InitFmt /\ [][NextDigits]_vars /\ WF_vars(NextDigits)

----------------------------------------------------------------------------
(* One element of one ring: u is the magnitude given to ring.from, call the  *)
(* last call, which carries the ring and the element.                        *)

\* longest byte string a modulus or a ring operand is built from
MaxModBytes == 3

\* every byte string up to MaxModBytes, and the longer ones of one repeated byte
ModBytes ==
    UNION {[1 .. n -> Bytes] : n \in 0 .. MaxModBytes}
    \cup {[i \in 1 .. n |-> b] : n \in MaxModBytes + 1 .. MaxModBytes + 2, b \in Bytes}

ModValues == {from_le_bytes(b) : b \in ModBytes}

InitMod == u \in ModValues /\ call = NoCall

\* ModuloRing::new(&n)
NewRing(n) ==
    /\ call = NoCall
    /\ call' = [name |-> "new", n |-> n, out |-> ModuloRing_new(n)]
    /\ UNCHANGED u

\* ring.from(x) for the UBig (sign Positive) or IBig x of magnitude u
From(sign) ==
    /\ call.name = "new"
    /\ call.out.status = "ok"
    /\ sign = "Negative" => ~is_zero(u)
    /\ call' = [name |-> "from", n |-> call.n, sign |-> sign,
                out |-> into_modulo(sign, u, call.out.val)]
    /\ UNCHANGED u

\* x.residue() for the element x made last
Residue ==
    /\ call.name = "from"
    /\ call' = [name |-> "residue", n |-> call.n, sign |-> call.sign, self |-> call.out,
                out |-> residue(call.out)]
    /\ UNCHANGED u

\* ring.modulus()
Modulus ==
    /\ call.name = "new"
    /\ call.out.status = "ok"
    /\ call' = [name |-> "modulus", n |-> call.n, ring |-> call.out.val,
                out |-> ModuloRing_modulus(call.out.val)]
    /\ UNCHANGED u

NextMod ==
    \/ \E n \in ModValues : NewRing(n)
    \/ Modulus
    \/ \E sign \in Signs : From(sign)
    \/ Residue

SpecMod == InitMod /\ [][NextMod]_vars

----------------------------------------------------------------------------
(* Multiplications in a ring: call carries the rings made, the elements x    *)
(* and y, and the residues gx and gy the numbers they were made from have;   *)
(* u is the U value last returned by residue().                              *)

\* the residue the element of magnitude a and the given sign has modulo m
ExpResidue(sign, a, m) == IF sign = "Positive" THEN a % m ELSE (m - (a % m)) % m

\* the number an element holds, whatever its form
NormalizedValue(modulo) ==
    IF modulo.tag = "Small" THEN modulo.normalized_value
    ELSE SeqValue(modulo.normalized_value, Pow2(WORD_BITS))

\* longest byte string a modulus or an operand of a multiplication is built from
MaxMulBytes == 1

\* multiplications and squarings made in a row
MaxMuls == 2

\* every byte string up to MaxMulBytes, and the longer ones of one repeated byte
MulBytes ==
    UNION {[1 .. n -> Bytes] : n \in 0 .. MaxMulBytes}
    \cup {[i \in 1 .. n |-> b] : n \in MaxMulBytes + 1 .. MaxMulBytes + 4, b \in Bytes}

MulValues == {from_le_bytes(b) : b \in MulBytes}

\* the numbers elements are made from: those of at most MaxMulBytes + 1 bytes
MulOperands == {a \in MulValues : Len(to_le_bytes(a)) <= MaxMulBytes + 1}

Forms == {"val_val", "val_ref", "ref_val", "ref_ref"}

\* ModuloRing::new(&n), the ring living at address 1
MulNewRing(n) ==
    /\ call = NoCall
    /\ ModuloRing_new(n).status = "ok"
    /\ call' = [name |-> "ring", n |-> Value(n), ring |-> RingAt(ModuloRing_new(n).val, 1)]
    /\ UNCHANGED u

\* x = ring.from(a) for the UBig (sign Positive) or IBig of magnitude a
MulFrom(a, sign) ==
    /\ call.name = "ring"
    /\ sign = "Negative" => ~is_zero(a)
    /\ call' = [name |-> "x", n |-> call.n, ring |-> call.ring, a |-> a, sign |-> sign,
                x |-> into_modulo(sign, a, call.ring),
                gx |-> ExpResidue(sign, Value(a), call.n)]
    /\ UNCHANGED u

\* ModuloRing::new(&n2), another ring record, living at address 2
OtherRing(n2) ==
    /\ call.name = "x"
    /\ ModuloRing_new(n2).status = "ok"
    /\ call' = [name |-> "ring2", n |-> call.n, ring |-> call.ring, x |-> call.x,
                gx |-> call.gx, a |-> call.a, sign |-> call.sign, n2 |-> Value(n2),
                ring2 |-> RingAt(ModuloRing_new(n2).val, 2)]
    /\ UNCHANGED u

\* y = r.from(b) in the ring made last; in another ring than x's, y is made
\* from the number x was made from
MulFromSecond(b, sign) ==
    /\ call.name \in {"x", "ring2"}
    /\ sign = "Negative" => ~is_zero(b)
    /\ call.name = "ring2" => b = call.a /\ sign = call.sign
    /\ LET r == IF call.name = "ring2" THEN call.ring2 ELSE call.ring
           n == IF call.name = "ring2" THEN call.n2 ELSE call.n
       IN call' = [name |-> "pair", n |-> call.n, ring |-> call.ring, x |-> call.x,
                   gx |-> call.gx, y |-> into_modulo(sign, b, r),
                   gy |-> ExpResidue(sign, Value(b), n), status |-> "ok", muls |-> 0]
    /\ UNCHANGED u

\* what a multiplication or squaring leaves in call: outs is the outcome of
\* each operand form, r the outcome of the form that multiplies x in place, x
\* the product, or after a panic x as the panic left it
Multiplied(name, outs, r, gx) ==
    [name |-> name, outs |-> outs, n |-> call.n, ring |-> call.ring,
     lhs |-> call.x, glhs |-> call.gx, rhs |-> call.y,
     x |-> IF r.status = "ok" THEN r.val ELSE r.self,
     gx |-> IF r.status = "ok" THEN gx ELSE call.gx,
     y |-> call.y, gy |-> call.gy, status |-> r.status, muls |-> call.muls + 1]

\* the product of x and y in each of the four operand forms, side by side;
\* x * &y, which multiplies x in place, gives the next x
Mul ==
    /\ call.name \in {"pair", "mul", "square"}
    /\ call.status = "ok"
    /\ call.muls < MaxMuls
    /\ LET outs == [f \in Forms |-> Modulo_mul(f, call.x, call.y)]
       IN call' = Multiplied("mul", outs, outs["val_ref"], (call.gx * call.gy) % call.n)
    /\ UNCHANGED u

\* x.square_in_place()
Square ==
    /\ call.name \in {"pair", "mul", "square"}
    /\ call.status = "ok"
    /\ call.muls < MaxMuls
    /\ LET r == square_in_place(call.x)
       IN call' = Multiplied("square", [f \in Forms |-> r], r, (call.gx * call.gx) % call.n)
    /\ UNCHANGED u

\* x.residue() after a multiplication or a squaring
MulResidue ==
    /\ call.name \in {"mul", "square"}
    /\ call.status = "ok"
    /\ residue(call.x).status = "ok"
    /\ u' = residue(call.x).val
    /\ call' = [name |-> "residue", of |-> call.name, n |-> call.n, x |-> call.x,
                gx |-> call.gx]

InitMul == u = from_word(0) /\ call = NoCall

NextMul ==
    \/ \E n \in MulValues : MulNewRing(n)
    \/ \E a \in MulOperands, sign \in Signs : MulFrom(a, sign)
    \/ \E n2 \in MulValues : OtherRing(n2)
    \/ \E b \in MulOperands, sign \in Signs : MulFromSecond(b, sign)
    \/ Mul
    \/ Square
    \/ MulResidue

SpecMul == InitMul /\ [][NextMul]_vars

----------------------------------------------------------------------------
(* Properties *)

IsShift(name) == call.name = name /\ CountValue(call.rhs) >= 0

FitsUsize(rhs) == CountValue(rhs) <= USIZE_MAX

\* floor(a / 2^k), without forming a power the operand cannot reach
FloorDivPow2(a, k) == IF Pow2(k) > a THEN 0 ELSE a \div Pow2(k)

\* C1: a left shift of a U value by a count k >= 0 that returns a value returns
\* exactly a * 2^k, in canonical form, and it does return one whenever k fits
\* in usize or a is zero; this holds for the owned and the by-reference operand.
ShlIsMultiplication ==
    (IsShift("shl") /\ (FitsUsize(call.rhs) \/ is_zero(u))) =>
        /\ call.out.status = "ok"
        /\ Canonical(call.out.val)
        /\ Value(call.out.val) = Value(u) * Pow2(IF is_zero(u) THEN 0 ELSE CountValue(call.rhs))

\* a multi-word value shifted in its own buffer by whole words and some bits
ShlLargeInPlaceReached ==
    /\ IsShift("shl")
    /\ call.owned
    /\ u.tag = "Large"
    /\ CountValue(call.rhs) > WORD_BITS
    /\ CountValue(call.rhs) % WORD_BITS # 0
    /\ call.out.status = "ok"
    /\ call.out.val.tag = "Large"
    /\ call.out.val.buffer.cap = u.buffer.cap

\* C2: a right shift of a U value by a count k >= 0 returns floor(a / 2^k),
\* which is 0 when k is at least the bit length of a and when k does not fit
\* in usize.
ShrIsFloorDivision ==
    IsShift("shr") =>
        /\ call.out.status = "ok"
        /\ Canonical(call.out.val)
        /\ Value(call.out.val) = FloorDivPow2(Value(u), CountValue(call.rhs))
        /\ (CountValue(call.rhs) >= BitLength(u) \/ ~FitsUsize(call.rhs)) => is_zero(call.out.val)

\* a reference to a three-word value shifted right by some bits, two words left
ShrLargeRefReached ==
    /\ IsShift("shr")
    /\ ~call.owned
    /\ u.tag = "Large"
    /\ Len(u.buffer.words) = 3
    /\ CountValue(call.rhs) % WORD_BITS # 0
    /\ call.out.status = "ok"
    /\ call.out.val.tag = "Large"
    /\ Len(call.out.val.buffer.words) = 2

\* C3: after any sequence of constructions from bytes or primitives and of
\* left and right shifts, the value is Small, or Large with at least two
\* words and a nonzero top word; zero is Small(0).
CanonicalForm ==
    /\ Canonical(u)
    /\ Value(u) <= WORD_MAX => u.tag = "Small"
    /\ Value(u) = 0 => u = Small(0)

\* a multi-word value right-shifted down to one nonzero word
ShrCollapsedReached ==
    /\ call.name = "shr"
    /\ call.was = "Large"
    /\ u.tag = "Small"
    /\ u.word # 0

\* C4: writing a value as little-endian (big-endian) bytes and reading the
\* bytes back little-endian (big-endian) gives an equal value.
ByteRoundTrip ==
    /\ (call.name = "from_le_bytes" /\ call.src = "to_le_bytes") => UEq(u, call.prev)
    /\ (call.name = "from_be_bytes" /\ call.src = "to_be_bytes") => UEq(u, call.prev)

\* a multi-word value read back from its own little-endian bytes
RoundTripLargeReached ==
    /\ call.name = "from_le_bytes"
    /\ call.src = "to_le_bytes"
    /\ call.prev.tag = "Large"
    /\ Len(call.bytes) % WORD_BYTES # 0

\* most significant byte of the output of to_le_bytes / to_be_bytes
TopByte == IF call.name = "to_le_bytes" THEN call.out[Len(call.out)] ELSE call.out[1]

\* C5: to_le_bytes and to_be_bytes write ceil(bitlen(u) / 8) bytes: nothing for
\* zero, and otherwise a most significant byte that is not zero.
MinimalBytes ==
    call.name \in {"to_le_bytes", "to_be_bytes"} =>
        /\ Len(call.out) = (BitLength(u) + BYTE_BITS - 1) \div BYTE_BITS
        /\ is_zero(u) => call.out = <<>>
        /\ ~is_zero(u) => TopByte # 0

\* a multi-word value whose top word has a zero high byte, written big-endian
ToBeBytesElidedReached ==
    /\ call.name = "to_be_bytes"
    /\ u.tag = "Large"
    /\ Len(call.out) = Len(u.buffer.words) * WORD_BYTES - 1

\* sum of b[i] * 256^i over the 0-based positions i, taken from the last byte down
RECURSIVE ByteSum(_)
ByteSum(b) ==
    IF Len(b) = 0 THEN 0
    ELSE b[Len(b)] * Pow2(BYTE_BITS * (Len(b) - 1)) + ByteSum(SubSeq(b, 1, Len(b) - 1))

\* C6: from_le_bytes(b) is the sum of b[i] * 256^i and from_be_bytes(b) the sum
\* of b[i] * 256^(len-1-i), for byte strings of every length, in canonical form.
FromBytesValue ==
    /\ call.name = "from_le_bytes" => Value(u) = ByteSum(call.bytes) /\ CanonicalForm
    /\ call.name = "from_be_bytes" => Value(u) = ByteSum(Reverse(call.bytes)) /\ CanonicalForm

\* big-endian bytes with an odd-length remainder and a zero high byte
FromBeBytesOddReached ==
    /\ call.name = "from_be_bytes"
    /\ Len(call.bytes) > WORD_BYTES
    /\ Len(call.bytes) % WORD_BYTES # 0
    /\ call.bytes[1] = 0
    /\ call.bytes[Len(call.bytes)] # 0
    /\ u.tag = "Large"

\* C7: converting a U value to a primitive type T gives Ok(v) with v the value
\* exactly when the value is at most T::MAX, and the out-of-range error
\* otherwise.
TryIntoChecked ==
    call.name = "try_into" =>
        IF Value(u) <= TMax(call.T) THEN call.out = Ok(Value(u)) ELSE call.out = Err

\* a two-word value that fits the unsigned two-word type but not the signed one
TryIntoSignedOverflowReached ==
    /\ call.name = "try_into"
    /\ call.T = Signed(2 * WORD_BYTES)
    /\ u.tag = "Large"
    /\ Len(u.buffer.words) = 2
    /\ call.out = Err

\* C8: conversion from an unsigned primitive or from bool always gives the same
\* number; conversion from a signed primitive fails exactly for the negative
\* values and gives the same number otherwise.
FromPrimitiveChecked ==
    /\ call.name = "from_unsigned" => Value(u) = call.x /\ CanonicalForm
    /\ call.name = "from_bool" => Value(u) = (IF call.x THEN 1 ELSE 0) /\ CanonicalForm
    /\ call.name = "from_signed" =>
           IF call.x < 0 THEN call.out = Err
           ELSE call.out = Ok(u) /\ Value(u) = call.x /\ CanonicalForm

\* an unsigned primitive wider than a word becoming a multi-word value
FromWidePrimitiveReached ==
    /\ call.name = "from_unsigned"
    /\ call.x > WORD_MAX
    /\ u.tag = "Large"

TooLargeCount == call.name = "shl" /\ CountValue(call.rhs) > USIZE_MAX

\* C9 as stated: a left shift of any U value by a count that does not fit in
\* usize panics.
ShlTooLargeAlwaysPanics ==
    TooLargeCount => call.out = panic_too_large

\* C9: a left shift of a nonzero U value by a count that does not fit in usize
\* panics; zero shifted by such a count is returned as zero.
ShlTooLargePanicsUnlessZero ==
    TooLargeCount =>
        IF is_zero(u) THEN call.out = Ok(from_word(0)) ELSE call.out = panic_too_large

\* a reference to a multi-word value shifted by a multi-word count
ShlTooLargeReached ==
    /\ TooLargeCount
    /\ ~call.owned
    /\ call.rhs.kind = "ubig"
    /\ call.rhs.big.tag = "Large"
    /\ u.tag = "Large"
    /\ call.out = panic_too_large

\* C10: a shift of a U value, or a left shift of an S value, by a negative
\* signed primitive or S count panics with the negative-shift message; by a
\* signed count of zero or more it does what it does by the same unsigned count.
NegativeShiftPanics ==
    /\ (call.name \in {"shl", "shr", "ishl"} /\ CountValue(call.rhs) < 0) =>
           call.out = panic_shift_negative
    /\ (call.name = "shl" /\ call.rhs.kind \in {"signed", "ibig"} /\ CountValue(call.rhs) >= 0) =>
           call.out = ubig_shl(u, CountUnsigned(CountValue(call.rhs)), call.owned)
    /\ (call.name = "shr" /\ call.rhs.kind \in {"signed", "ibig"} /\ CountValue(call.rhs) >= 0) =>
           call.out = ubig_shr(u, CountUnsigned(CountValue(call.rhs)), call.owned)

\* a multi-word value right-shifted by a negative signed primitive
NegativeShrReached ==
    /\ call.name = "shr"
    /\ call.rhs.kind = "signed"
    /\ call.rhs.n < 0
    /\ u.tag = "Large"
    /\ call.out = panic_shift_negative

\* C11: a left shift of an S value (sign, mag) by a count k >= 0 does to the
\* magnitude what the U left shift does and keeps the sign: it returns
\* (sign, mag * 2^k), with the sign Positive when the magnitude is zero, and it
\* fails exactly when the shift of the magnitude fails.
IShlKeepsSign ==
    IsShift("ishl") =>
        LET m == ubig_shl(u, call.rhs, call.owned)
        IN IF m.status = "ok"
           THEN /\ call.out.status = "ok"
                /\ call.out.val.mag = m.val
                /\ Value(call.out.val.mag) =
                       Value(u) * Pow2(IF is_zero(u) THEN 0 ELSE CountValue(call.rhs))
                /\ call.out.val.sign = (IF is_zero(u) THEN "Positive" ELSE call.sign)
           ELSE call.out = m

\* a negative multi-word value shifted left by whole words and some bits
IShlNegativeReached ==
    /\ IsShift("ishl")
    /\ call.sign = "Negative"
    /\ u.tag = "Large"
    /\ CountValue(call.rhs) > WORD_BITS
    /\ call.out.status = "ok"
    /\ call.out.val.sign = "Negative"


\* the characters of a formatted number that follow its sign and prefix
DigitsOut == SubSeq(call.out, Len(sign_str(call.self, call.f)) + Len(call.self.prefix) + 1,
                    Len(call.out))

IsDigit(ch, radix) ==
    \E d \in 0 .. radix - 1 : LowerDigits[d + 1] = ch \/ UpperDigits[d + 1] = ch

DigitValue(ch) == CHOOSE d \in 0 .. MAX_RADIX - 1 : LowerDigits[d + 1] = ch \/ UpperDigits[d + 1] = ch

\* the number a digit string stands for, most significant digit first
RECURSIVE ParseDigits(_, _)
ParseDigits(s, radix) ==
    IF Len(s) = 0 THEN 0
    ELSE ParseDigits(SubSeq(s, 1, Len(s) - 1), radix) * radix + DigitValue(s[Len(s)])

\* C13: written without a minimum width, through in_radix or a formatting
\* trait, a number is its sign and prefix followed by a nonempty string of
\* digits of the radix that has no leading zero, except "0" for zero, and
\* whose positional value is the magnitude.
RadixRoundTrip ==
    (call.name = "fmt" /\ ~call.f.width.some) =>
        /\ Len(DigitsOut) >= 1
        /\ \A i \in 1 .. Len(DigitsOut) : IsDigit(DigitsOut[i], call.self.radix)
        /\ DigitsOut[1] = "0" => (Len(DigitsOut) = 1 /\ is_zero(u))
        /\ ParseDigits(DigitsOut, call.self.radix) = Value(u)

\* a three-word value written in a radix that is not a power of two, in more
\* than two groups of digits
RadixLargeNonPow2Reached ==
    /\ call.name = "fmt"
    /\ ~call.f.width.some
    /\ call.via = "in_radix"
    /\ ~is_power_of_two(call.self.radix)
    /\ u.tag = "Large"
    /\ Len(u.buffer.words) = 3
    /\ Len(DigitsOut) > 2 * radix_info(call.self.radix).digits_per_word


\* the digits of n in a radix, most significant first, with no leading zero
RECURSIVE ExpDigits(_, _, _)
ExpDigits(n, radix, digit_case) ==
    LET d == IF digit_case = "Lower" THEN LowerDigits[(n % radix) + 1]
             ELSE UpperDigits[(n % radix) + 1]
    IN IF n < radix THEN <<d>> ELSE Append(ExpDigits(n \div radix, radix, digit_case), d)

\* what the claims say of a call to fmt: its sign, prefix, radix and digit case
ExpSign ==
    IF call.self.sign = "Negative" THEN <<"-">>
    ELSE IF call.f.sign_plus THEN <<"+">> ELSE <<>>

ExpPrefix ==
    IF ~call.f.alternate THEN <<>>
    ELSE CASE call.via = "Binary" -> <<"0", "b">>
           [] call.via = "Octal" -> <<"0", "o">>
           [] call.via \in {"LowerHex", "UpperHex"} -> <<"0", "x">>
           [] OTHER -> <<>>

ExpRadix ==
    CASE call.via = "in_radix" -> call.self.radix
      [] call.via \in {"Display", "Debug"} -> 10
      [] call.via = "Binary" -> 2
      [] call.via = "Octal" -> 8
      [] call.via \in {"LowerHex", "UpperHex"} -> 16

ExpCase ==
    CASE call.via = "in_radix" -> IF call.f.alternate THEN "Upper" ELSE "Lower"
      [] call.via = "UpperHex" -> "Upper"
      [] OTHER -> "Lower"

\* the number as written with no padding: sign, prefix, digits
ExpNumber == ExpSign \o ExpPrefix \o ExpDigits(Value(u), ExpRadix, ExpCase)

\* a call to fmt whose minimum width exceeds the natural width of the number
Padded == call.name = "fmt" /\ call.f.width.some /\ call.f.width.val > Len(ExpNumber)

\* C14: for each prepared form, width() is the number of characters write()
\* emits, and the characters written number the larger of the minimum width
\* and the sign, prefix and digits together.
WidthExact ==
    call.name = "fmt" =>
        LET digit_case == digit_case_of(call.self, call.f)
            prepared == prepare(call.self, digit_case)
            digits == write(prepared, digit_case)
        IN /\ width(prepared) = Len(digits)
           /\ Len(call.out) = Max(IF call.f.width.some THEN call.f.width.val ELSE 0,
                                  Len(ExpSign) + Len(ExpPrefix) + Len(digits))

\* a multi-word value in a radix that is not a power of two, whose top group
\* is shorter than a whole group, written to a minimum width
WidthShortTopGroupReached ==
    /\ Padded
    /\ u.tag = "Large"
    /\ ~is_power_of_two(call.self.radix)
    /\ radix_info(call.self.radix).digits_per_word > 1
    /\ Len(ExpDigits(Value(u), ExpRadix, ExpCase)) % radix_info(call.self.radix).digits_per_word # 0

\* C15: with the zero-pad flag and a minimum width above the natural width the
\* output is the sign, the prefix, minimum width - natural width zeros and the
\* digits, whatever the fill character and the alignment.
ZeroPadAfterSign ==
    (Padded /\ call.f.sign_aware_zero_pad) =>
        call.out = ExpSign \o ExpPrefix
                       \o Repeat("0", call.f.width.val - Len(ExpNumber))
                       \o ExpDigits(Value(u), ExpRadix, ExpCase)

\* a negative number with a prefix zero-padded under left alignment and a fill
ZeroPadReached ==
    /\ Padded
    /\ call.f.sign_aware_zero_pad
    /\ call.self.sign = "Negative"
    /\ call.via = "LowerHex"
    /\ call.f.alternate
    /\ call.f.align = "Left"
    /\ call.f.fill = "*"

\* C16: without the zero-pad flag and with a minimum width w above the natural
\* width n, the number is surrounded by w - n fill characters: all on the left
\* for right or unspecified alignment, all on the right for left alignment,
\* floor((w - n) / 2) on the left and the rest on the right for center.
AlignmentFill ==
    (Padded /\ ~call.f.sign_aware_zero_pad) =>
        LET pad == call.f.width.val - Len(ExpNumber)
            left == CASE call.f.align \in {"Right", "None"} -> pad
                      [] call.f.align = "Left" -> 0
                      [] call.f.align = "Center" -> pad \div 2
        IN call.out = Repeat(call.f.fill, left) \o ExpNumber
                          \o Repeat(call.f.fill, pad - left)

\* a number centred with an odd number of fill characters
CenterOddReached ==
    /\ Padded
    /\ ~call.f.sign_aware_zero_pad
    /\ call.f.align = "Center"
    /\ (call.f.width.val - Len(ExpNumber)) % 2 = 1
    /\ call.f.fill = "*"

RECURSIVE DropFill(_, _)
DropFill(s, c) == IF Len(s) > 0 /\ s[1] = c THEN DropFill(Tail(s), c) ELSE s

SignCount(s) == Cardinality({i \in 1 .. Len(s) : s[i] \in {"+", "-"}})

\* C17: after the fill characters, a negative number starts with '-', a
\* non-negative one with '+' exactly when the sign-plus flag is set and with no
\* sign otherwise; the sign comes before the prefix and the digits, and no
\* other sign is written.
SignWritten ==
    call.name = "fmt" =>
        LET s == DropFill(call.out, call.f.fill)
            sign == IF call.self.sign = "Negative" THEN <<"-">>
                    ELSE IF call.f.sign_plus THEN <<"+">> ELSE <<>>
        IN /\ SubSeq(s, 1, Len(sign)) = sign
           /\ SignCount(call.out) = Len(sign)
           /\ SubSeq(s, Len(sign) + 1, Len(sign) + Len(ExpPrefix)) = ExpPrefix
           /\ Len(s) > Len(sign) + Len(ExpPrefix)

\* a negative number written with the sign-plus flag, a prefix and fill
SignNegativePlusReached ==
    /\ Padded
    /\ call.self.sign = "Negative"
    /\ call.f.sign_plus
    /\ call.f.alternate
    /\ call.via = "Octal"
    /\ ~call.f.sign_aware_zero_pad
    /\ call.f.align = "Right"

\* C18: written without a minimum width, in_radix has no prefix and upper-case
\* digits exactly with the alternate flag; Binary, Octal, LowerHex and UpperHex
\* have the prefix 0b, 0o, 0x, 0x exactly with the flag and the digit case of
\* their name; Display has no prefix.
AlternateFlag ==
    (call.name = "fmt" /\ ~call.f.width.some) =>
        /\ call.self.prefix = ExpPrefix
        /\ call.out = ExpNumber

\* in_radix with the alternate flag writing a letter digit
AlternateUpperReached ==
    /\ call.name = "fmt"
    /\ ~call.f.width.some
    /\ call.via = "in_radix"
    /\ call.f.alternate
    /\ \E i \in 1 .. Len(call.out) : call.out[i] \in {"A", "B", "C", "D", "E", "F"}


\* C19: in_radix(r) on a U or S value panics for every r outside 2..=36 and
\* returns a formatter of that value in radix r for every r in 2..=36; nothing
\* is written through in_radix in a radix outside that range.
InRadixChecked ==
    /\ call.name = "in_radix" =>
           IF call.radix \in 2 .. 36
           THEN /\ call.out.status = "ok"
                /\ call.out.val.radix = call.radix
                /\ call.out.val.magnitude = u
                /\ call.out.val.sign = call.sign
           ELSE call.out = panic_invalid_radix
    /\ (call.name = "fmt" /\ call.via = "in_radix") => call.self.radix \in 2 .. 36

\* in_radix(37) on a negative multi-word value
InRadixTooLargeReached ==
    /\ call.name = "in_radix"
    /\ call.radix = 37
    /\ call.sign = "Negative"
    /\ u.tag = "Large"
    /\ call.out.status = "panic"


\* C20: in a ring of modulus m >= 2, one-word or multi-word, the element made
\* from a U value a holds a mod m and the one made from the S value -a holds
\* (m - (a mod m)) mod m, each shifted as the ring's modulus is, so that equal
\* residues make equal elements; residue() returns that number, below m, as a
\* canonical U value.
FromResidueReduces ==
    /\ call.name = "from" =>
           /\ NormalizedValue(call.out)
                  = ExpResidue(call.sign, Value(u), Value(call.n)) * Pow2(call.out.ring.shift)
           /\ call.out.tag = call.n.tag
           /\ call.out.tag = "Large" =>
                  Len(call.out.normalized_value) = Len(call.n.buffer.words)
    /\ call.name = "residue" =>
           /\ call.out.status = "ok"
           /\ Canonical(call.out.val)
           /\ Value(call.out.val) = ExpResidue(call.sign, Value(u), Value(call.n))
           /\ Value(call.out.val) < Value(call.n)

\* the residue of a negative multi-word value in a ring whose multi-word
\* modulus is shifted, the value being larger than the modulus
ResidueNegativeLargeReached ==
    /\ call.name = "residue"
    /\ call.sign = "Negative"
    /\ call.self.tag = "Large"
    /\ call.self.ring.shift > 0
    /\ u.tag = "Large"
    /\ Value(u) > Value(call.n)
    /\ call.out.status = "ok"
    /\ call.out.val.tag = "Large"


\* the ring of call has a modulus of more than one word
MulLargeRing == call.ring.tag = "Large"

\* call holds a squaring, or a multiplication of two elements of one ring
MulSameRing == call.name = "square" \/ same_ring(call.lhs, call.rhs)

\* C21: in a ring R of modulus m, one-word or multi-word and whatever its
\* shift, the product of the elements made from a and b is the element whose
\* residue is (a * b) mod m, and squaring an element made from a in place
\* leaves the element whose residue is (a * a) mod m; multiplying two elements
\* of the same ring does not panic.
MulHomomorphism ==
    /\ call.name \in {"mul", "square"} /\ MulSameRing =>
         LET exp == IF call.name = "mul" THEN (call.glhs * call.gy) % call.n
                    ELSE (call.glhs * call.glhs) % call.n
         IN /\ call.status = "ok"
            /\ NormalizedValue(call.x) = exp * Pow2(call.ring.shift)
            /\ residue(call.x).status = "ok"
            /\ Value(residue(call.x).val) = exp
            /\ call.gx = exp
    /\ call.name = "residue" => Value(u) = call.gx /\ Canonical(u)

\* a product in a multi-word ring with a shifted modulus that had to be reduced
MulLargeReducedReached ==
    /\ call.name = "mul"
    /\ call.status = "ok"
    /\ MulLargeRing
    /\ call.ring.shift > 0
    /\ call.glhs * call.gy > call.n
    /\ call.gx > 0


\* C22: multiplying two elements that were not made from the very same ring
\* record panics with the different-rings message and leaves both operands
\* holding what they held, whether the rings differ in form, in modulus or
\* only in being two records of equal moduli.
RingIsolation ==
    call.name = "mul" /\ ~same_ring(call.lhs, call.rhs) =>
        /\ \A f \in Forms :
             /\ call.outs[f].status = "panic"
             /\ call.outs[f].msg = panic_different_rings.msg
             /\ call.outs[f].self = IF f = "ref_val" THEN call.rhs ELSE call.lhs
        /\ call.status = "panic"
        /\ call.x = call.lhs
        /\ call.y = call.rhs

\* a multiplication across two ring records of equal multi-word moduli
EqualModuliPanicReached ==
    /\ call.name = "mul"
    /\ call.status = "panic"
    /\ call.lhs.tag = "Large"
    /\ call.rhs.tag = "Large"
    /\ call.rhs.ring.addr # call.lhs.ring.addr
    /\ call.rhs.ring.normalized_modulus = call.lhs.ring.normalized_modulus
    /\ call.rhs.ring.shift = call.lhs.ring.shift


\* C23: the ring made for a modulus m >= 2 gives m back from modulus(), as a
\* canonical U value and without failing the check that the shift dropped no
\* bits, whatever shift the ring stores its modulus with.
ModulusRoundTrip ==
    call.name = "modulus" =>
        /\ call.out.status = "ok"
        /\ Value(call.out.val) = Value(call.n)
        /\ Canonical(call.out.val)

\* modulus() of a multi-word ring that stores its modulus shifted
ModulusLargeShiftedReached ==
    /\ call.name = "modulus"
    /\ call.ring.tag = "Large"
    /\ call.ring.shift > 0
    /\ call.out.status = "ok"


\* the number a ring stores as its modulus, whatever its form
NormalizedModulus(ring) ==
    IF ring.tag = "Small" THEN ring.normalized_modulus
    ELSE SeqValue(ring.normalized_modulus, Pow2(WORD_BITS))

\* an element holds a multiple of 2^shift below the stored modulus, in a
\* multi-word ring in as many words as the stored modulus has
Represented(modulo) ==
    /\ NormalizedValue(modulo) < NormalizedModulus(modulo.ring)
    /\ NormalizedValue(modulo) % Pow2(modulo.ring.shift) = 0
    /\ modulo.tag = modulo.ring.tag
    /\ modulo.tag = "Large" =>
         Len(modulo.normalized_value) = Len(modulo.ring.normalized_modulus)

\* C24: every element, as made from a number and after any sequence of
\* multiplications and squarings, holds a value below the stored modulus
\* m << s that is a multiple of 2^s, and in a multi-word ring holds it in
\* exactly as many words as m << s has.
ElementRepresented ==
    /\ call.name \in {"x", "ring2", "pair", "mul", "square", "residue"} => Represented(call.x)
    /\ call.name \in {"pair", "mul", "square"} => Represented(call.y)

\* a second multiplication or squaring in a row in a multi-word ring with a
\* shifted modulus, leaving an element that is not zero
SecondMulLargeReached ==
    /\ call.name \in {"mul", "square"}
    /\ call.status = "ok"
    /\ call.muls = 2
    /\ MulLargeRing
    /\ call.ring.shift > 0
    /\ NormalizedValue(call.x) > 0


\* what mul_normalized_values computed in the multiplication or squaring of call
MulInternals ==
    mul_normalized_values(call.ring, call.lhs.normalized_value,
                          IF call.name = "mul" THEN call.rhs.normalized_value
                          ELSE call.lhs.normalized_value)

\* C29: in a multiplication or squaring in a multi-word ring of n-word stored
\* modulus m', both operands have n words, the product written into the zeroed
\* slot of 2n words carries nothing out, the product shifted right by the
\* ring's shift is below m' * 2^(n * WORD_BITS), so that the quotient fits in n
\* words, and the low n words after the division hold the remainder.
MulInternalChecks ==
    call.name \in {"mul", "square"} /\ MulLargeRing /\ MulSameRing =>
        LET n == Len(call.ring.normalized_modulus)
            m1 == NormalizedModulus(call.ring)
            base == Pow2(WORD_BITS)
            r == MulInternals
        IN /\ Len(call.lhs.normalized_value) = n
           /\ call.name = "mul" => Len(call.rhs.normalized_value) = n
           /\ r.overflow = 0
           /\ call.status = "ok"
           /\ Len(r.shifted) = 2 * n
           /\ SeqValue(r.shifted, base) < m1 * Pow2(n * WORD_BITS)
           /\ SeqValue(r.shifted, base) \div m1 < Pow2(n * WORD_BITS)
           /\ SeqValue(r.words, base) = SeqValue(r.shifted, base) % m1
           /\ call.x.normalized_value = r.words

\* a multi-word multiplication whose shifted product reaches into the high
\* half of the slot
MulWideProductReached ==
    /\ call.name = "mul"
    /\ MulLargeRing
    /\ call.status = "ok"
    /\ call.ring.shift > 0
    /\ SeqValue(MulInternals.shifted, Pow2(WORD_BITS))
         >= Pow2(Len(call.ring.normalized_modulus) * WORD_BITS)


\* C30: the four operand forms x * y, x * &y, &x * y and &x * &y of a
\* multiplication in one ring all give the element with the same stored value,
\* the operands taken the other way round give it too, and the operand taken
\* by reference holds afterwards what it held.
MulFormsAgree ==
    call.name = "mul" /\ same_ring(call.lhs, call.rhs) =>
        /\ call.status = "ok"
        /\ \A f \in Forms : call.outs[f] = Ok(call.x)
        /\ \A f \in Forms : Modulo_mul(f, call.rhs, call.lhs) = Ok(call.x)
        /\ call.y = call.rhs

\* &x * y, computed as y * &x, of two different elements of a multi-word ring
MulRefValReached ==
    /\ call.name = "mul"
    /\ call.outs["ref_val"].status = "ok"
    /\ MulLargeRing
    /\ call.ring.shift > 0
    /\ call.lhs # call.rhs
    /\ NormalizedValue(call.x) > 0
    /\ call.x # call.rhs


\* base to the power n
RECURSIVE Power(_, _)
Power(base, n) == IF n = 0 THEN 1 ELSE base * Power(base, n - 1)

\* the digits of the n-th and lower groups of the number v, each group in
\* exactly g digits, the most significant group first
RECURSIVE ExpGroups(_, _, _, _, _)
ExpGroups(v, n, radix, g, digit_case) ==
    IF n = 0 THEN <<>>
    ELSE LET range == Power(radix, g)
             group == (v \div Power(range, n - 1)) % range
             digits == ExpDigits(group, radix, digit_case)
         IN Repeat("0", g - Len(digits)) \o digits \o ExpGroups(v, n - 1, radix, g, digit_case)

\* call holds the formatting of a multi-word number in a radix that is not a
\* power of two
FmtLargeNonPow2 ==
    /\ call.name = "fmt"
    /\ u.tag = "Large"
    /\ ~is_power_of_two(call.self.radix)

\* C25: a multi-word number in a radix that is not a power of two is written
\* as its top group without leading zeros followed by every lower group in
\* exactly g digits, g the digits per word of the radix, the most significant
\* group first; the digits number width(top group) + g * (number of lower
\* groups), and that is what width() reports.
GroupsWritten ==
    FmtLargeNonPow2 =>
        LET digit_case == digit_case_of(call.self, call.f)
            prepared == prepare(call.self, digit_case)
            radix == call.self.radix
            g == radix_info(radix).digits_per_word
            k == Len(prepared.low_groups)
            top == Value(u) \div Power(Power(radix, g), k)
            digits == ExpDigits(top, radix, digit_case) \o ExpGroups(Value(u), k, radix, g, digit_case)
        IN /\ prepared.kind = "LargeInNonPow2"
           /\ k >= 1
           /\ top > 0 /\ top <= WORD_MAX
           /\ write(prepared, digit_case) = digits
           /\ width(prepared) = Len(ExpDigits(top, radix, digit_case)) + g * k
           /\ width(prepared) = Len(digits)
           /\ ~call.f.width.some => DigitsOut = digits

\* a number of two lower groups of two digits, one of which starts with a
\* zero, written without a minimum width
GroupLeadingZeroReached ==
    /\ FmtLargeNonPow2
    /\ ~call.f.width.some
    /\ radix_info(call.self.radix).digits_per_word = 2
    /\ LET p == prepare(call.self, digit_case_of(call.self, call.f))
       IN /\ Len(p.low_groups) >= 2
          /\ \E i \in 1 .. Len(p.low_groups) : p.low_groups[i] < call.self.radix


\* C26: the loop of PreparedLargeInNonPow2::new comes to an end for every
\* multi-word number and every radix that is not a power of two; the buffer is
\* never empty, and the loop is left with exactly one word in it, so that the
\* assertion after the loop holds.
GroupsLoopEnds ==
    /\ [](call.name \in {"loop", "done"} => Len(call.buffer.words) >= 1)
    /\ [](call.name = "done" => Len(call.buffer.words) = 1 /\ call.status = "ok")
    /\ (call.name = "loop" ~> call.name = "done")

\* the loop left after a turn that did not shorten the buffer
GroupsLongLoopReached ==
    /\ call.name = "done"
    /\ call.status = "ok"
    /\ Len(call.low_groups) > Len(u.buffer.words) - 1


\* the number of digits the multi-word number u has in the radix of call
DigitsWanted == (BitLength(u) + call.p.log_radix - 1) \div call.p.log_radix

\* the bits of u left for its first digit
LeftoverBits == BitLength(u) - (DigitsWanted - 1) * call.p.log_radix

SpareCapacity(x) == IF x.tag = "Large" THEN x.buffer.cap - Len(x.buffer.words) ELSE 0

\* C28: for every multi-word U value, whatever spare capacity its buffer has,
\* and every count, shifting the owned value, inside its own buffer or into a
\* new one, gives the same canonical value as shifting a reference to it, for
\* << and for >>; the two panic together or not at all.
OwnedAndRefAgree ==
    call.name \in {"shl", "shr"} /\ call.was.tag = "Large" =>
        /\ call.owned.status = call.ref.status
        /\ call.owned.status = "ok" =>
             /\ Canonical(call.owned.val)
             /\ Canonical(call.ref.val)
             /\ call.owned.val.tag = call.ref.val.tag
             /\ WordsOf(call.owned.val) = WordsOf(call.ref.val)
        /\ call.owned.status = "panic" => call.owned.msg = call.ref.msg

\* a left shift by whole words and bits made inside a buffer whose spare
\* capacity an earlier right shift had widened
ShlInWidenedBufferReached ==
    /\ call.name = "shl"
    /\ call.was.tag = "Large"
    /\ call.owned.status = "ok"
    /\ SpareCapacity(call.was) > SLACK
    /\ CountValue(call.rhs) > WORD_BITS
    /\ CountValue(call.rhs) % WORD_BITS # 0
    /\ call.owned.val.tag = "Large"
    /\ ~will_reallocate(call.was.buffer, Len(call.owned.val.buffer.words))

====
